---- MODULE Spec2Model ----
(***************************************************************************)
(* Model of main.py of VideoDownloaderBot: the decision gate that builds   *)
(* Pending Choices, the selection and cancel callbacks, the job queue, the *)
(* worker's download-and-send state machine, the progress tracker and the  *)
(* throttled status editor.                                                *)
(*                                                                         *)
(* The specifications share the variables and the actions:                 *)
(*   Spec          everything                                              *)
(*   SpecStore     the Pending Choice Store under the clock                *)
(*   SpecJobs      selections, cancel requests, the queue and the workers  *)
(*   SpecGate      the decision gate over the plans of the Size Planner    *)
(*   SpecProgress  progress_hook / _calc_download_progress for one fetch   *)
(*   SpecEdit      _safe_edit (time in tenths of a second)                 *)
(*   SpecWork      the workers and the output folder, one handler thread   *)
(*   SpecFit       _build_audio_plan_mp3 over durations and ceilings       *)
(*   SpecPick      the selection among the formats of one metadata         *)
(*   SpecProbe     _apply_probe_if_needed over the answers of the probes   *)
(*   SpecSized     _format_size_bytes and the size of a paired plan        *)
(*   SpecFetch     the workers with the signals that show the full total   *)
(*   SpecCalls     the calls to the platform, with and without bot_lock    *)
(*   SpecLive      the workers under fair scheduling, one handler thread   *)
(***************************************************************************)
EXTENDS Integers, Sequences, FiniteSets, TLC

(***************************************************************************)
(* Program constants                                                       *)
(***************************************************************************)
\* Python's None for Optional[int] values (no integer of the model is this small)
None == -1000000

WORKERS == 2

\* seconds
PENDING_TTL_SEC == 600

MAX_SEND_BYTES == 50000000

AUDIO_HEADROOM_BYTES == 1500000

\* EDIT_INTERVAL_SEC = 1.8, in tenths of a second
EDIT_INTERVAL_DSEC == 18

\* TeleBot(config.token, threaded=True): the handler pool, num_threads threads
num_threads == 2

(***************************************************************************)
(* Bounds of the model                                                     *)
(***************************************************************************)
\* request ids handed out by uuid4 (fresh, never reused)
MaxRequests == 2
\* job ids handed out by uuid4 (fresh, never reused)
MaxJobs == 2
\* number of clock advances of time.time() in a run
MaxTicks == 1
\* percentages one fetch reports through progress_hook
MaxSignals == 3
\* calls of _safe_edit in a run
MaxCalls == 3
\* formats in the list of one metadata
MaxFormats == 3

Users == {1, 2}
\* the users who send links (user 2 only presses buttons)
Senders == {1}
Rids == 1..MaxRequests
Jids == 1..MaxJobs
Handlers == 1..num_threads
Workers == 1..WORKERS
\* mode tags a dl|mode|rid token can carry ("other" is any unknown tag)
Modes == {"video", "doc", "audio", "other"}
\* clock advances, in seconds: the TTL to the second, and one second more
TickDeltas == {PENDING_TTL_SEC, PENDING_TTL_SEC + 1}

VARIABLES
    now,                \* time.time(), seconds
    ticks,              \* clock advances so far
    pending_requests,   \* rid -> pending choice
    choice_msg,         \* rid -> the message sent with the pending choice: text and buttons
    nextRid,            \* next fresh request id
    nextJid,            \* next fresh job id
    jobs_q,             \* FIFO of job records
    cancel_events,      \* job_id -> flag (threading.Event)
    active_jobs,        \* job_id -> [user_id, status_message_id]
    hpc, hloc,          \* handler threads: position and locals
    wpc, wjob, wloc,    \* workers: position, job, locals
    wrun,               \* workers: the record of the job being run (what happened to it so far)
    pmode,              \* the fetch progress_hook serves: "none", or the job's mode
    progress_state,     \* progress_state["pct"]
    pfinished,          \* the hook has handled a signal with status finished
    reports,            \* the percentages the hook handed to the status editor, in order
    last_edited,        \* key -> time of the last edit the platform took (tenths of a second)
    last_text,          \* key -> text of the last edit the platform took
    enow,               \* datetime.now(), tenths of a second
    calls,              \* the calls of _safe_edit so far, in order
    files,              \* the output folder: filename prefix -> size of the file under it
    fit,                \* the last call of _build_audio_plan_mp3: its inputs and what it returned
    pick,               \* the last selection among the formats of a metadata: the list and the choices
    probe,              \* the last call of _apply_probe_if_needed: the plan, the answers, the result
    sized,              \* the last sizes taken from formats: the formats, their sizes, the paired plan
    bot_lock,           \* the thread that holds bot_lock (NoThread: free)
    inflight            \* thread -> the calls to the platform it has made that have not returned

vars == <<now, ticks, pending_requests, choice_msg, nextRid, nextJid, jobs_q, cancel_events,
          active_jobs, hpc, hloc, wpc, wjob, wloc, wrun,
          pmode, progress_state, pfinished, reports, last_edited, last_text, enow, calls, files,
          fit, pick, probe, sized, bot_lock, inflight>>

(***************************************************************************)
(* Helpers                                                                 *)
(***************************************************************************)
IsInt(x) == x # None

NoPlan == [kind |-> "none"]
NoJob == [job_id |-> 0]
NoLoc == [op |-> "none"]
NoFit == [op |-> "none"]
NoPick == [op |-> "none"]
NoProbe == [op |-> "none"]
NoSized == [op |-> "none"]

\* the threads that call the platform: the pool threads of the bot and the workers
Threads == ({"handler"} \X Handlers) \cup ({"worker"} \X Workers)
NoThread == <<"none", 0>>

Put(f, k, v) == [x \in (DOMAIN f) \cup {k} |-> IF x = k THEN v ELSE f[x]]
Pop(f, k) == [x \in (DOMAIN f) \ {k} |-> f[x]]

\* _is_cancelled
IsCancelled_Never(j) == FALSE
IsCancelled(j) == j \in DOMAIN cancel_events /\ cancel_events[j]

(***************************************************************************)
(* Plans                                                                   *)
(***************************************************************************)
\* Video plans as _build_video_plan_no_squeeze returns them: a confident plan has
\* a positive size; an unconfident one has no size or a bitrate-derived one.
PlanSizes == {1, MAX_SEND_BYTES, MAX_SEND_BYTES + 1}
PlannedVideo ==
    [kind : {"progressive"}, estimated_size : PlanSizes,
     estimated_confident : BOOLEAN, probe_urls : {0, 1}]
    \cup [kind : {"progressive"}, estimated_size : {None},
          estimated_confident : {FALSE}, probe_urls : {0, 1}]
    \cup [kind : {"separate"}, estimated_size : PlanSizes,
          estimated_confident : BOOLEAN, probe_urls : {0, 1, 2}]
    \cup [kind : {"separate"}, estimated_size : {None},
          estimated_confident : {FALSE}, probe_urls : {0, 1, 2}]
    \cup {[kind |-> "unknown", estimated_size |-> None,
           estimated_confident |-> FALSE, probe_urls |-> 0]}

\* _format_size_bytes with the bitrate guess marked confident
FormatSizeBytes_TrustsBitrate(f, dur) ==
    IF IsInt(f.filesize) /\ f.filesize > 0 THEN [size |-> f.filesize, conf |-> TRUE]
    ELSE IF IsInt(f.filesize_approx) /\ f.filesize_approx > 0
    THEN [size |-> f.filesize_approx, conf |-> TRUE]
    ELSE IF IsInt(dur) /\ dur # 0 /\ IsInt(f.tbr) /\ f.tbr > 0 /\ (dur * f.tbr) \div 8 > 0
    THEN [size |-> (dur * f.tbr) \div 8, conf |-> TRUE]
    ELSE [size |-> None, conf |-> FALSE]

\* _format_size_bytes (345-365): the size of one format and whether it is
\* confident.  tbr is given in bits per second (the code's Kbps times 1000), so
\* int(dur * (float(tbr) * 1000.0 / 8.0)) is (dur * tbr) \div 8
FormatSizeBytes(f, dur) ==
    IF IsInt(f.filesize) /\ f.filesize > 0 THEN [size |-> f.filesize, conf |-> TRUE]
    ELSE IF IsInt(f.filesize_approx) /\ f.filesize_approx > 0
    THEN [size |-> f.filesize_approx, conf |-> TRUE]
    ELSE IF IsInt(dur) /\ dur # 0 /\ IsInt(f.tbr) /\ f.tbr > 0 /\ (dur * f.tbr) \div 8 > 0
    THEN [size |-> (dur * f.tbr) \div 8, conf |-> FALSE]
    ELSE [size |-> None, conf |-> FALSE]

\* lines 441-446: the size and the confidence of the paired plan
PairedSize(v, a) ==
    IF IsInt(v.size) /\ IsInt(a.size)
    THEN [size |-> v.size + a.size, conf |-> v.conf /\ a.conf]
    ELSE [size |-> None, conf |-> FALSE]

\* what a format declares: filesize and filesize_approx (None, zero or a number
\* of bytes), tbr (None, 4 bits per second, 8 kbit per second)
SizedFormats == [filesize : {None, 0, 10}, filesize_approx : {None, 20}, tbr : {None, 4, 8000}]
\* what _duration_sec gives: no duration, less than a second, a second, ten minutes
SizedDurations == {None, 0, 1, 600}

\* the sizes of the best video-only and the best audio-only format of one
\* metadata, and the paired plan built from them (lines 426, 434, 441-446)
SizeFormats(formats, durs) ==
    /\ sized = NoSized
    /\ \E vf \in formats, af \in formats, dur \in durs :
          LET v == FormatSizeBytes(vf, dur)
              a == FormatSizeBytes(af, dur)
          IN sized' = [dur |-> dur, vf |-> vf, af |-> af, v |-> v, a |-> a,
                       pair |-> PairedSize(v, a)]
    /\ UNCHANGED <<now, ticks, pending_requests, choice_msg, nextRid, nextJid, jobs_q,
                   cancel_events, active_jobs, hpc, hloc, wpc, wjob, wloc, wrun,
                   pmode, progress_state, pfinished, reports, last_edited, last_text,
                   enow, calls, files, bot_lock, inflight, fit, pick, probe>>

\* what _probe_url_size_bytes returns for one URL: None or a positive total
ProbeResults == {None, 1, MAX_SEND_BYTES, MAX_SEND_BYTES + 1}

\* _apply_probe_if_needed; probes is the sequence of results, one per probe URL
RECURSIVE SumSeq(_)
SumSeq(s) == IF s = <<>> THEN 0 ELSE Head(s) + SumSeq(Tail(s))

ApplyProbeIfNeeded(plan, probes) ==
    IF plan.estimated_confident /\ IsInt(plan.estimated_size) THEN plan
    ELSE IF plan.probe_urls = 0 THEN plan
    ELSE IF \E i \in 1..plan.probe_urls : ~IsInt(probes[i]) \/ probes[i] <= 0 THEN plan
    ELSE [plan EXCEPT !.estimated_size = SumSeq(SubSeq(probes, 1, plan.probe_urls)),
                      !.estimated_confident = TRUE]

\* the probe that looks at the first answer alone
ProbeCall_FirstOnly(plan, urls, answers) ==
    LET direct == SelectSeq(urls, LAMBDA u : u = "http")
    IN ApplyProbeIfNeeded([plan EXCEPT !.probe_urls = IF direct = <<>> THEN 0 ELSE 1], answers)

\* lines 502-503 before the loop: plan["probe_urls"] holds strings, of which the
\* ones that start with http are probed, in order ("http" stands for such a
\* string, "other" for any other); answers[i] is what _probe_url_size_bytes
\* gives for the i-th URL of the list
RECURSIVE DirectAnswers(_, _, _)
DirectAnswers(urls, answers, i) ==
    IF i > Len(urls) THEN <<>>
    ELSE IF urls[i] = "http" THEN <<answers[i]>> \o DirectAnswers(urls, answers, i + 1)
    ELSE DirectAnswers(urls, answers, i + 1)

ProbeCall(plan, urls, answers) ==
    LET direct == DirectAnswers(urls, answers, 1)
    IN ApplyProbeIfNeeded([plan EXCEPT !.probe_urls = Len(direct)], direct)

UrlKinds == {"http", "other"}

\* one call of _apply_probe_if_needed on a plan of _build_video_plan_no_squeeze
ProbePlan(plans, kinds, results) ==
    /\ probe = NoProbe
    /\ \E plan \in plans :
         \E urls \in [1..plan.probe_urls -> kinds], answers \in [1..plan.probe_urls -> results] :
            /\ \A i \in 1..plan.probe_urls : urls[i] # "http" => answers[i] = None
            /\ probe' = [plan |-> plan, urls |-> urls, answers |-> answers,
                         result |-> ProbeCall(plan, urls, answers)]
    /\ UNCHANGED <<now, ticks, pending_requests, choice_msg, nextRid, nextJid, jobs_q,
                   cancel_events, active_jobs, hpc, hloc, wpc, wjob, wloc, wrun,
                   pmode, progress_state, pfinished, reports, last_edited, last_text,
                   enow, calls, files, bot_lock, inflight, fit, pick, sized>>

\* _build_audio_plan_mp3: int(dur * (br * 1000 / 8)) = dur * br * 125
Ladder == <<192, 160, 128, 112, 96, 80, 64, 48, 32>>
AudioEst(dur, br) == dur * (br * 125)

\* the walk with "<" for "<=" at line 534
RECURSIVE AudioWalk_Strict(_, _, _)
AudioWalk_Strict(dur, limit, i) ==
    IF i > Len(Ladder) THEN NoPlan
    ELSE IF AudioEst(dur, Ladder[i]) + AUDIO_HEADROOM_BYTES < limit
         THEN [kind |-> "audio", mp3_kbps |-> Ladder[i],
               estimated_size |-> AudioEst(dur, Ladder[i]), estimated_confident |-> TRUE]
         ELSE AudioWalk_Strict(dur, limit, i + 1)

RECURSIVE AudioWalk(_, _, _)
AudioWalk(dur, limit, i) ==
    IF i > Len(Ladder) THEN NoPlan
    ELSE IF AudioEst(dur, Ladder[i]) + AUDIO_HEADROOM_BYTES <= limit
         THEN [kind |-> "audio", mp3_kbps |-> Ladder[i],
               estimated_size |-> AudioEst(dur, Ladder[i]), estimated_confident |-> TRUE]
         ELSE AudioWalk(dur, limit, i + 1)

BuildAudioPlanMp3(dur, limit) ==
    IF ~IsInt(dur) \/ dur <= 0 THEN NoPlan ELSE AudioWalk(dur, limit, 1)

\* the second value _build_audio_plan_mp3 returns: no reason with a plan, the
\* reason of line 528 without a duration, the reason of line 544 after the ladder
AudioReason(dur, limit) ==
    IF ~IsInt(dur) \/ dur <= 0 THEN "no_duration"
    ELSE IF AudioWalk(dur, limit, 1) = NoPlan THEN "too_long" ELSE "none"

\* _duration_sec: meta["duration"] is given in half seconds (None when it is
\* missing or not a number); int() cuts a positive one to whole seconds
DurationSec(half) == IF IsInt(half) /\ half > 0 THEN half \div 2 ELSE None

\* durations a metadata can carry, in half seconds: none, not positive, half a
\* second, and the durations around which the rungs 192 and 32 stop fitting
\* under MAX_SEND_BYTES (2020 s and 12125 s)
MetaDurations == {None, -2, 0, 1, 2, 3, 1200, 1201, 4040, 4041, 4042, 24250, 24251, 24252}
\* ceilings: none, the headroom alone, one second at 32 and at 192 kbps to the
\* byte, ten minutes at 160 kbps, and the ceiling of the program
Limits == {0, AUDIO_HEADROOM_BYTES, AUDIO_HEADROOM_BYTES + 3999, AUDIO_HEADROOM_BYTES + 4000,
           AUDIO_HEADROOM_BYTES + 24000, 15000000, MAX_SEND_BYTES - 1, MAX_SEND_BYTES}

\* one call of _build_audio_plan_mp3(meta, limit_bytes)
FitAudio(durations, limits) ==
    /\ \E half \in durations, limit \in limits :
          LET dur == DurationSec(half)
          IN fit' = [duration |-> half, dur |-> dur, limit |-> limit,
                     plan |-> BuildAudioPlanMp3(dur, limit),
                     reason |-> AudioReason(dur, limit)]
    /\ UNCHANGED <<now, ticks, pending_requests, choice_msg, nextRid, nextJid, jobs_q,
                   cancel_events, active_jobs, hpc, hloc, wpc, wjob, wloc, wrun,
                   pmode, progress_state, pfinished, reports, last_edited, last_text,
                   enow, calls, files, bot_lock, inflight, pick, probe, sized>>

\* durations _duration_sec can return: None, ten minutes, and one too long for 32 kbps
Durations == {None, 600, 12126}

(***************************************************************************)
(* Rendition selection (_best_progressive_mp4, _best_separate_mp4_m4a)     *)
(***************************************************************************)
\* the formats of a metadata: the container, whether vcodec and acodec are
\* other than "none", height, fps in half frames per second (59 is 29.5 fps),
\* tbr and abr; None for a field the format does not carry
VideoFormats ==
    [ext : {"mp4", "webm"}, vcodec : {TRUE}, acodec : {TRUE},
     height : {None, 720}, fps : {58, 59, 60}, tbr : {1, 2}, abr : {None}]
    \cup [ext : {"mp4"}, vcodec : {TRUE}, acodec : {FALSE},
          height : {None, 720}, fps : {58, 59, 60}, tbr : {1, 2}, abr : {None}]
AudioFormats ==
    [ext : {"m4a"}, vcodec : {FALSE}, acodec : {TRUE},
     height : {None}, fps : {None}, tbr : {1, 2}, abr : {None, 3}]
Formats == VideoFormats \cup AudioFormats
FormatLists == UNION {[1..n -> Formats] : n \in 0..MaxFormats}

\* f.get(field) or 0
OrZero(x) == IF IsInt(x) THEN x ELSE 0

\* lines 386 and 424: key = (int(height), int(fps), float(tbr)); int() cuts the
\* frame rate to whole frames
Key(f) == <<OrZero(f.height), OrZero(f.fps) \div 2, OrZero(f.tbr)>>
\* line 430: abr = f.get("abr") or f.get("tbr") or 0
AudioKey(f) == IF OrZero(f.abr) # 0 THEN f.abr ELSE OrZero(f.tbr)

\* key > best_key on tuples
KeyGreater(a, b) ==
    \/ a[1] > b[1]
    \/ a[1] = b[1] /\ a[2] > b[2]
    \/ a[1] = b[1] /\ a[2] = b[2] /\ a[3] > b[3]

\* lines 377-380, lines 417 and 427: which formats a loop looks at
IsProgressive(f) == f.ext = "mp4" /\ f.vcodec /\ f.acodec
IsVideoOnly(f) == f.ext = "mp4" /\ f.vcodec /\ ~f.acodec
IsAudioOnly(f) == ~f.vcodec /\ f.acodec /\ f.ext \in {"m4a", "mp4"}

\* the loops, from format i on; best is the position of the best format so
\* far in the list (0: none yet)
RECURSIVE ProgressiveWalk(_, _, _)
ProgressiveWalk(fs, i, best) ==
    IF i > Len(fs) THEN best
    ELSE IF IsProgressive(fs[i]) /\ (best = 0 \/ KeyGreater(Key(fs[i]), Key(fs[best])))
         THEN ProgressiveWalk(fs, i + 1, i)
         ELSE ProgressiveWalk(fs, i + 1, best)

RECURSIVE VideoOnlyWalk(_, _, _)
VideoOnlyWalk(fs, i, best) ==
    IF i > Len(fs) THEN best
    ELSE IF IsVideoOnly(fs[i]) /\ (best = 0 \/ KeyGreater(Key(fs[i]), Key(fs[best])))
         THEN VideoOnlyWalk(fs, i + 1, i)
         ELSE VideoOnlyWalk(fs, i + 1, best)

RECURSIVE AudioOnlyWalk(_, _, _)
AudioOnlyWalk(fs, i, best) ==
    IF i > Len(fs) THEN best
    ELSE IF IsAudioOnly(fs[i]) /\ (best = 0 \/ AudioKey(fs[i]) > AudioKey(fs[best]))
         THEN AudioOnlyWalk(fs, i + 1, i)
         ELSE AudioOnlyWalk(fs, i + 1, best)

\* the position of the format _best_progressive_mp4 builds its plan from (0: None)
BestProgressiveMp4(fs) == ProgressiveWalk(fs, 1, 0)

\* the positions of the two formats _best_separate_mp4_m4a pairs (NoPair: None)
NoPair == [v |-> 0, a |-> 0]
BestSeparateMp4M4a(fs) ==
    LET v == VideoOnlyWalk(fs, 1, 0)
        a == AudioOnlyWalk(fs, 1, 0)
    IN IF v = 0 \/ a = 0 THEN NoPair ELSE [v |-> v, a |-> a]

\* the two selections over the formats of one metadata
PickBest(lists) ==
    /\ pick = NoPick
    /\ \E fs \in lists :
          pick' = [formats |-> fs,
                   progressive |-> BestProgressiveMp4(fs),
                   separate |-> BestSeparateMp4M4a(fs)]
    /\ UNCHANGED <<now, ticks, pending_requests, choice_msg, nextRid, nextJid, jobs_q,
                   cancel_events, active_jobs, hpc, hloc, wpc, wjob, wloc, wrun,
                   pmode, progress_state, pfinished, reports, last_edited, last_text,
                   enow, calls, files, bot_lock, inflight, fit, probe, sized>>

(***************************************************************************)
(* Decision gate (_send_choice_ui, lines 1016-1134)                        *)
(***************************************************************************)
VideoConf_AnySize(plan) == IsInt(plan.estimated_size) /\ plan.estimated_size > 0
VideoConf(plan) ==
    plan.estimated_confident /\ IsInt(plan.estimated_size) /\ plan.estimated_size > 0

VideoOk_BelowCeiling(plan) ==
    VideoConf(plan) /\ IsInt(plan.estimated_size) /\ plan.estimated_size < MAX_SEND_BYTES

VideoOk_IgnoresConfidence(plan) ==
    IsInt(plan.estimated_size) /\ plan.estimated_size <= MAX_SEND_BYTES
VideoOk(plan) ==
    VideoConf(plan) /\ IsInt(plan.estimated_size) /\ plan.estimated_size <= MAX_SEND_BYTES

Gate_TooLargeKeepsVideo(video_plan, audio_plan) ==
    [branch |-> IF VideoOk(video_plan) THEN "ok"
                ELSE IF VideoConf(video_plan) THEN "too_large" ELSE "unconfirmed",
     create |-> VideoConf(video_plan) \/ audio_plan # NoPlan,
     video_plan |-> IF VideoConf(video_plan) THEN video_plan ELSE NoPlan,
     audio_plan |-> audio_plan,
     buttons |-> (IF VideoConf(video_plan) THEN {"video", "doc"} ELSE {})
                 \cup (IF audio_plan # NoPlan THEN {"audio"} ELSE {})]

\* the gate's decision: which message is sent (branch), whether a Pending Choice
\* is created, which plans it stores, which buttons the message carries
Gate(video_plan, audio_plan) ==
    IF VideoConf(video_plan) /\ IsInt(video_plan.estimated_size)
       /\ video_plan.estimated_size > MAX_SEND_BYTES
    THEN [branch |-> "too_large", create |-> audio_plan # NoPlan,
          video_plan |-> NoPlan, audio_plan |-> audio_plan,
          buttons |-> IF audio_plan # NoPlan THEN {"audio"} ELSE {}]
    ELSE IF ~VideoOk(video_plan)
    THEN [branch |-> "unconfirmed", create |-> audio_plan # NoPlan,
          video_plan |-> NoPlan, audio_plan |-> audio_plan,
          buttons |-> IF audio_plan # NoPlan THEN {"audio"} ELSE {}]
    ELSE [branch |-> "ok", create |-> TRUE,
          video_plan |-> video_plan, audio_plan |-> audio_plan,
          buttons |-> {"video", "doc"} \cup (IF audio_plan # NoPlan THEN {"audio"} ELSE {})]

(***************************************************************************)
(* Calls to the platform (_bot_call and its users, bot.reply_to, the       *)
(* upload's session.post)                                                  *)
(***************************************************************************)
\* the calls a thread makes through _bot_call: a handler through _safe_delete,
\* _safe_send_message, _safe_answer_callback and _safe_edit (line 1263), a
\* worker through _safe_edit and _safe_delete
LockedCalls(t) ==
    IF t[1] = "handler"
    THEN {"delete_message", "send_message", "answer_callback_query", "edit_message_text"}
    ELSE {"edit_message_text", "delete_message"}

\* the calls a thread makes with no lock held: a handler's bot.reply_to (962,
\* 996, 1002, 1155, 1160), a worker's session.post of the upload (603)
DirectCall(t) == IF t[1] = "handler" THEN "reply_to" ELSE "post"

\* _bot_call, line 66 passed: the lock is taken and fn is called.  A handler
\* makes its calls one after the other; a worker's upload calls _safe_edit
\* from the monitor callback (597) while its post is under way
BotCallEnter(t) ==
    /\ bot_lock = NoThread
    /\ \E kind \in LockedCalls(t) :
          /\ inflight[t] = {} \/ (inflight[t] = {"post"} /\ kind = "edit_message_text")
          /\ inflight' = [inflight EXCEPT ![t] = @ \cup {kind}]
    /\ bot_lock' = t
    /\ UNCHANGED <<now, ticks, pending_requests, choice_msg, nextRid, nextJid, jobs_q,
                   cancel_events, active_jobs, hpc, hloc, wpc, wjob, wloc, wrun,
                   pmode, progress_state, pfinished, reports, last_edited, last_text,
                   enow, calls, files, fit, pick, probe, sized>>

\* fn returns or raises: the with statement releases the lock
BotCallExit(t) ==
    /\ bot_lock = t
    /\ inflight' = [inflight EXCEPT ![t] = @ \cap {"post"}]
    /\ bot_lock' = NoThread
    /\ UNCHANGED <<now, ticks, pending_requests, choice_msg, nextRid, nextJid, jobs_q,
                   cancel_events, active_jobs, hpc, hloc, wpc, wjob, wloc, wrun,
                   pmode, progress_state, pfinished, reports, last_edited, last_text,
                   enow, calls, files, fit, pick, probe, sized>>

\* bot.reply_to, or session.post, is called
DirectCallEnter(t) ==
    /\ inflight[t] = {}
    /\ inflight' = [inflight EXCEPT ![t] = {DirectCall(t)}]
    /\ UNCHANGED <<now, ticks, pending_requests, choice_msg, nextRid, nextJid, jobs_q,
                   cancel_events, active_jobs, hpc, hloc, wpc, wjob, wloc, wrun,
                   pmode, progress_state, pfinished, reports, last_edited, last_text,
                   enow, calls, files, fit, pick, probe, sized, bot_lock>>

\* and returns or raises
DirectCallExit(t) ==
    /\ inflight[t] = {DirectCall(t)}
    /\ inflight' = [inflight EXCEPT ![t] = {}]
    /\ UNCHANGED <<now, ticks, pending_requests, choice_msg, nextRid, nextJid, jobs_q,
                   cancel_events, active_jobs, hpc, hloc, wpc, wjob, wloc, wrun,
                   pmode, progress_state, pfinished, reports, last_edited, last_text,
                   enow, calls, files, fit, pick, probe, sized, bot_lock>>

(***************************************************************************)
(* Progress tracker                                                        *)
(***************************************************************************)
\* _calc_download_progress: the percentage it returns (None when it has none)
\* and the new value of state["pct"]
Clamp99(p) == IF p >= 100 THEN 99 ELSE p
KeepMax_Forgets(p, prev) == p
KeepMax(p, prev) == IF p < prev THEN prev ELSE p

CalcDownloadProgress(d, prev) ==
    IF IsInt(d.fragment_count) /\ d.fragment_count > 0 /\ IsInt(d.fragment_index)
    THEN LET idx0 == IF d.fragment_index < 0 THEN 0 ELSE d.fragment_index
             idx == IF idx0 > d.fragment_count THEN d.fragment_count ELSE idx0
             pct == KeepMax(Clamp99((idx * 100) \div d.fragment_count), prev)
         IN [pct |-> pct, state |-> pct]
    ELSE IF IsInt(d.total_bytes) /\ d.total_bytes > 0
            /\ IsInt(d.downloaded_bytes) /\ d.downloaded_bytes >= 0
    THEN LET pct == KeepMax(Clamp99((d.downloaded_bytes * 100) \div d.total_bytes), prev)
         IN [pct |-> pct, state |-> pct]
    ELSE IF IsInt(d.total_bytes_estimate) /\ d.total_bytes_estimate > 0
            /\ IsInt(d.downloaded_bytes) /\ d.downloaded_bytes >= 0
    THEN LET pct == KeepMax(Clamp99((d.downloaded_bytes * 100) \div d.total_bytes_estimate), prev)
         IN [pct |-> pct, state |-> pct]
    ELSE [pct |-> None, state |-> prev]

\* progress_hook for one signal d: what it raises, the new state["pct"], and the
\* status edit it asks for (edit: "none", "throttled" or "forced"; pct: the
\* percentage the edit carries, None for a line without one)
ProgressHook(d, prev, cancelled, mode) ==
    IF cancelled
    THEN [raise |-> "cancelled", state |-> prev, edit |-> "none", pct |-> None]
    ELSE IF ~d.own
    THEN [raise |-> "none", state |-> prev, edit |-> "none", pct |-> None]
    ELSE IF d.status = "downloading"
    THEN LET c == CalcDownloadProgress(d, prev)
         IN IF IsInt(d.total_bytes) /\ d.total_bytes > MAX_SEND_BYTES /\ mode # "audio"
            THEN [raise |-> "too_large", state |-> c.state, edit |-> "none", pct |-> None]
            ELSE [raise |-> "none", state |-> c.state, edit |-> "throttled", pct |-> c.pct]
    ELSE IF d.status = "finished"
    THEN [raise |-> "none", state |-> 100, edit |-> "forced", pct |-> 100]
    ELSE [raise |-> "none", state |-> prev, edit |-> "none", pct |-> None]

Signal(st, own, fc, fi, db, tb, te) ==
    [status |-> st, own |-> own, fragment_count |-> fc, fragment_index |-> fi,
     downloaded_bytes |-> db, total_bytes |-> tb, total_bytes_estimate |-> te]

\* d.get("total_bytes") is an int above the ceiling
Reveals(d) == IsInt(d.total_bytes) /\ d.total_bytes > MAX_SEND_BYTES

\* the signals a fetch of the queue model receives: a total above the ceiling
\* and one below it, before the first byte
FetchSignals ==
    { Signal("downloading", TRUE, None, None, 0, MAX_SEND_BYTES + 1, None),
      Signal("downloading", TRUE, None, None, 0, MAX_SEND_BYTES, None) }
\* the one of them that the hook lets pass whatever the mode
QuietSignals == {Signal("downloading", TRUE, None, None, 0, MAX_SEND_BYTES, None)}
\* and the signal that ends a file whose size no downloading signal carried (a
\* fragmented stream, a response without a length): total_bytes is what was written
HookSignals ==
    FetchSignals \cup {Signal("finished", TRUE, None, None, MAX_SEND_BYTES + 1, MAX_SEND_BYTES + 1, None)}

(***************************************************************************)
(* Initial state: module load, nothing pending, WORKERS workers blocked on *)
(* the empty queue                                                         *)
(***************************************************************************)
EmptyMap == [x \in {} |-> 0]
\* a worker's locals: progress_state["pct"], whether the upload read a chunk,
\* and tmp_id (0 before line 742)
NoWLoc == [pct |-> 0, read |-> FALSE, tmp |-> 0]
\* what happened to the job a worker runs: the last call made on its status
\* message, the terminal state, whether a checkpoint ran with the flag set,
\* the flag when the execution aborted, whether the upload was acknowledged,
\* the size of the file the upload was started with (None: no upload started),
\* whether a progress signal carried a total_bytes above MAX_SEND_BYTES
NoRun == [lastOp |-> "none", outcome |-> "none", cpSeen |-> FALSE,
          abortFlag |-> "none", ackd |-> FALSE, upSize |-> None, hardTotal |-> FALSE]

Init ==
    /\ now = 0
    /\ ticks = 0
    /\ pending_requests = EmptyMap
    /\ choice_msg = EmptyMap
    /\ nextRid = 1
    /\ nextJid = 1
    /\ jobs_q = <<>>
    /\ cancel_events = EmptyMap
    /\ active_jobs = EmptyMap
    /\ hpc = [h \in Handlers |-> "idle"]
    /\ hloc = [h \in Handlers |-> NoLoc]
    /\ wpc = [w \in Workers |-> "idle"]
    /\ wjob = [w \in Workers |-> NoJob]
    /\ wloc = [w \in Workers |-> NoWLoc]
    /\ wrun = [w \in Workers |-> NoRun]
    /\ pmode = "none"
    /\ progress_state = 0
    /\ pfinished = FALSE
    /\ reports = <<>>
    /\ last_edited = EmptyMap
    /\ last_text = EmptyMap
    /\ enow = 0
    /\ calls = <<>>
    /\ files = EmptyMap
    /\ fit = NoFit
    /\ probe = NoProbe
    /\ sized = NoSized
    /\ bot_lock = NoThread
    /\ inflight = [t \in Threads |-> {}]
    /\ pick = NoPick

clockVars == <<now, ticks>>
storeVars == <<pending_requests, choice_msg, nextRid>>
queueVars == <<jobs_q, cancel_events, active_jobs, nextJid>>
workerVars == <<wpc, wjob, wloc, wrun>>
progVars == <<pmode, progress_state, pfinished, reports>>
editVars == <<last_edited, last_text, enow, calls>>
fileVars == <<files>>
planVars == <<fit, pick, probe, sized>>
callVars == <<bot_lock, inflight>>

\* the clock moves
Tick ==
    /\ ticks < MaxTicks
    /\ \E d \in TickDeltas : now' = now + d
    /\ ticks' = ticks + 1
    /\ UNCHANGED <<storeVars, hpc, hloc, queueVars, workerVars, progVars, editVars, planVars, callVars, fileVars>>

(***************************************************************************)
(* _send_choice_ui: sweep, then (after the metadata and probe requests)    *)
(* the decision gate                                                       *)
(***************************************************************************)
\* _cleanup_pending
CleanupPending(p, t) ==
    [r \in {x \in DOMAIN p : ~(t - p[x].created_at > PENDING_TTL_SEC)} |-> p[r]]

SubmitBegin(h) ==
    /\ hpc[h] = "idle"
    /\ nextRid + Cardinality({g \in Handlers : hpc[g] \in {"submit", "gate"}}) <= MaxRequests
    /\ pending_requests' = CleanupPending(pending_requests, now)
    /\ \E u \in Senders : hloc' = [hloc EXCEPT ![h] = [op |-> "submit", user_id |-> u]]
    /\ hpc' = [hpc EXCEPT ![h] = "submit"]
    /\ UNCHANGED <<clockVars, choice_msg, nextRid, queueVars, workerVars, progVars, editVars, planVars, callVars, fileVars>>

\* a plan that passes the gate, one that is too large, one without a size, and
\* one whose size is a bitrate guess, to be probed
FitPlan == [kind |-> "progressive", estimated_size |-> MAX_SEND_BYTES,
            estimated_confident |-> TRUE, probe_urls |-> 0]
BigPlan == [kind |-> "progressive", estimated_size |-> MAX_SEND_BYTES + 1,
            estimated_confident |-> TRUE, probe_urls |-> 0]
UnknownPlan == [kind |-> "unknown", estimated_size |-> None,
                estimated_confident |-> FALSE, probe_urls |-> 0]
GuessPlan == [kind |-> "progressive", estimated_size |-> 1,
              estimated_confident |-> FALSE, probe_urls |-> 1]

\* lines 998-1014: the metadata request (it may raise), the plans built from it.
\* The metadata gives a plan of `plans` and a duration of `durs`; each probe
\* answers with a value of `answers`.
SubmitFetch(h, plans, answers, durs) ==
    /\ hpc[h] = "submit"
    /\ \/ /\ hpc' = [hpc EXCEPT ![h] = "idle"]           \* _get_video_meta raised
          /\ hloc' = [hloc EXCEPT ![h] = NoLoc]
       \/ \E plan \in plans, dur \in durs, probes \in [1..2 -> answers] :
             /\ \A i \in 1..2 : i > plan.probe_urls => probes[i] = None
             /\ hpc' = [hpc EXCEPT ![h] = "gate"]
             /\ hloc' = [hloc EXCEPT ![h] =
                   [op |-> "gate", user_id |-> hloc[h].user_id,
                    video_plan |-> ApplyProbeIfNeeded(plan, probes),
                    audio_plan |-> BuildAudioPlanMp3(dur, MAX_SEND_BYTES)]]
    /\ UNCHANGED <<clockVars, storeVars, queueVars, workerVars, progVars, editVars, planVars, callVars, fileVars>>

\* lines 1016-1134: the gate, the Pending Choice and the message with its buttons
SubmitDecide(h) ==
    /\ hpc[h] = "gate"
    /\ LET g == Gate(hloc[h].video_plan, hloc[h].audio_plan)
       IN IF g.create
          THEN /\ pending_requests' =
                    Put(pending_requests, nextRid,
                        [created_at |-> now, user_id |-> hloc[h].user_id,
                         video_plan |-> g.video_plan, audio_plan |-> g.audio_plan])
               /\ choice_msg' = Put(choice_msg, nextRid,
                                     [text |-> g.branch, buttons |-> g.buttons])
               /\ nextRid' = nextRid + 1
          ELSE UNCHANGED storeVars
    /\ hpc' = [hpc EXCEPT ![h] = "idle"]
    /\ hloc' = [hloc EXCEPT ![h] = NoLoc]
    /\ UNCHANGED <<clockVars, queueVars, workerVars, progVars, editVars, planVars, callVars, fileVars>>

(***************************************************************************)
(* on_download_choice: lookup and owner check (1208-1223), then pop, plan  *)
(* selection and enqueue (1225-1281)                                       *)
(***************************************************************************)
\* line 1221: call.from_user.id != req["user_id"] refuses the selection
IsRequester_Anyone(u, req) == TRUE
IsRequester(u, req) == u = req.user_id

ChoiceRequest(h, u, m, rid, wellformed) ==
    /\ hpc[h] = "idle"
    /\ IF wellformed /\ rid \in DOMAIN pending_requests
          /\ IsRequester(u, pending_requests[rid])
       THEN /\ nextJid + Cardinality({g \in Handlers : hpc[g] = "choice"}) <= MaxJobs
            /\ hpc' = [hpc EXCEPT ![h] = "choice"]
            /\ hloc' = [hloc EXCEPT ![h] =
                  [op |-> "choice", mode |-> m, rid |-> rid, req |-> pending_requests[rid],
                   from_user |-> u]]
       ELSE UNCHANGED <<hpc, hloc>>
    /\ UNCHANGED <<clockVars, storeVars, queueVars, workerVars, progVars, editVars, planVars, callVars, fileVars>>

\* a dl| callback arrives: a malformed token, or one with a mode tag of `modes`
ChoiceBegin(h, modes) ==
    \/ \E m \in modes : ChoiceRequest(h, 1, m, 1, FALSE)
    \/ \E u \in Users, m \in modes, rid \in Rids : ChoiceRequest(h, u, m, rid, TRUE)

\* lines 1233-1250: the plan and the job mode for a mode tag
ChosenPlan_FallsBack(req, mode) ==
    IF mode = "audio" \/ req.video_plan = NoPlan THEN req.audio_plan ELSE req.video_plan
ChosenPlan(req, mode) == IF mode = "audio" THEN req.audio_plan ELSE req.video_plan
JobMode(mode) == IF mode = "audio" THEN "audio" ELSE IF mode = "doc" THEN "doc" ELSE "video"

ChoiceConsume(h) ==
    /\ hpc[h] = "choice"
    /\ LET l == hloc[h]
           plan == ChosenPlan(l.req, l.mode)
           job_id == nextJid
           job == [job_id |-> job_id, mode |-> JobMode(l.mode), plan |-> plan,
                   status_message_id |-> l.rid]
       IN /\ pending_requests' = Pop(pending_requests, l.rid)
          /\ IF plan = NoPlan
             THEN UNCHANGED queueVars
             ELSE /\ cancel_events' = Put(cancel_events, job_id, FALSE)
                  /\ active_jobs' = Put(active_jobs, job_id,
                        [user_id |-> l.req.user_id, status_message_id |-> l.rid])
                  /\ jobs_q' = Append(jobs_q, job)
                  /\ nextJid' = nextJid + 1
    /\ hpc' = [hpc EXCEPT ![h] = "idle"]
    /\ hloc' = [hloc EXCEPT ![h] = NoLoc]
    /\ UNCHANGED <<clockVars, choice_msg, nextRid, workerVars, progVars, editVars, planVars, callVars, fileVars>>

(***************************************************************************)
(* on_cancel: lookup and owner check (1173-1186), then set and delete      *)
(* (1188-1197)                                                             *)
(***************************************************************************)
\* line 1184: call.from_user.id != job_info.get("user_id") refuses the request
IsOwner_Anyone(u, job_info) == TRUE
IsOwner(u, job_info) == u = job_info.user_id

CancelRequest(h, u, job_id, wellformed) ==
    /\ hpc[h] = "idle"
    /\ IF wellformed /\ job_id \in DOMAIN active_jobs /\ IsOwner(u, active_jobs[job_id])
       THEN /\ hpc' = [hpc EXCEPT ![h] = "cancel"]
            /\ hloc' = [hloc EXCEPT ![h] =
                  [op |-> "cancel", job_id |-> job_id, job_info |-> active_jobs[job_id],
                   from_user |-> u]]
       ELSE UNCHANGED <<hpc, hloc>>
    /\ UNCHANGED <<clockVars, storeVars, queueVars, workerVars, progVars, editVars, planVars, callVars, fileVars>>

\* a cnl| callback arrives: a malformed token, or one naming a job id
CancelBegin(h) ==
    \/ CancelRequest(h, 1, 1, FALSE)
    \/ \E u \in Users, job_id \in Jids : CancelRequest(h, u, job_id, TRUE)

\* lines 1188-1190: ev = cancel_events.get(job_id); if ev: ev.set()
SetFlag_Create(events, job_id) == Put(events, job_id, TRUE)
SetFlag(events, job_id) ==
    IF job_id \in DOMAIN events THEN [events EXCEPT ![job_id] = TRUE] ELSE events

CancelApply(h) ==
    /\ hpc[h] = "cancel"
    /\ cancel_events' = SetFlag(cancel_events, hloc[h].job_id)
    /\ hpc' = [hpc EXCEPT ![h] = "idle"]
    /\ hloc' = [hloc EXCEPT ![h] = NoLoc]
    /\ UNCHANGED <<clockVars, storeVars, jobs_q, active_jobs, nextJid, workerVars, progVars, editVars, planVars, callVars, fileVars>>

(***************************************************************************)
(* _worker_loop and _download_and_send                                     *)
(***************************************************************************)
handlerVars == <<clockVars, storeVars, hpc, hloc>>

\* the flag as the registry holds it, for the record of what a checkpoint or an
\* abort could see
FlagSet(j) == j \in DOMAIN cancel_events /\ cancel_events[j]

Goto(w, pc) == wpc' = [wpc EXCEPT ![w] = pc]
\* the run record after a checkpoint
Seen(r, j) == [r EXCEPT !.cpSeen = @ \/ FlagSet(j)]
\* the run record when the execution leaves the try body with an exception
Aborted(r, j) == [r EXCEPT !.abortFlag = IF FlagSet(j) THEN "set" ELSE "unset"]

\* queue.Queue.get: the oldest item, and the queue without it
QueueGet_Newest(q) == [job |-> q[Len(q)], rest |-> SubSeq(q, 1, Len(q) - 1)]
QueueGet_Peek(q) == [job |-> Head(q), rest |-> q]
QueueGet(q) == [job |-> Head(q), rest |-> Tail(q)]

\* jobs_q.get()
WorkerGet(w) ==
    /\ wpc[w] = "idle"
    /\ jobs_q # <<>>
    /\ wjob' = [wjob EXCEPT ![w] = QueueGet(jobs_q).job]
    /\ jobs_q' = QueueGet(jobs_q).rest
    /\ wloc' = [wloc EXCEPT ![w] = NoWLoc]
    /\ wrun' = [wrun EXCEPT ![w] = [NoRun EXCEPT !.lastOp = "queued"]]
    /\ Goto(w, "start")
    /\ UNCHANGED <<handlerVars, progVars, editVars, planVars, callVars, fileVars, cancel_events, active_jobs, nextJid>>

\* line 742: tmp_id = str(round(time.time() * 1000)).  A reading of the clock
\* is named by the job that made it; with sameMs, the reading may be the one
\* another worker made in the same millisecond (that worker stands between
\* line 742 and the pre-fetch check).
ClockReadings(w, sameMs) ==
    {wjob[w].job_id}
    \cup (IF sameMs THEN {wloc[v].tmp : v \in {x \in Workers \ {w} : wpc[x] = "prefetch"}}
          ELSE {})

\* lines 731-745: the output folder is made sure of, the prefix is taken
Prepare(w, sameMs) ==
    /\ wpc[w] = "start"
    /\ \E t \in ClockReadings(w, sameMs) : wloc' = [wloc EXCEPT ![w].tmp = t]
    /\ Goto(w, "prefetch")
    /\ UNCHANGED <<handlerVars, progVars, editVars, planVars, callVars, fileVars, queueVars, wjob, wrun>>

\* line 740 raises (os.makedirs): the exception leaves _download_and_send
\* before its try statement and _worker_loop through its finally (932); the
\* thread ends with the job
MakedirsFail(w) ==
    /\ wpc[w] = "start"
    /\ Goto(w, "dead")
    /\ UNCHANGED <<handlerVars, progVars, editVars, planVars, callVars, fileVars, queueVars, wjob, wloc, wrun>>

\* lines 812-822: the pre-fetch check, then the forced "Downloading... 0%"
PreFetchCheck(w) ==
    /\ wpc[w] = "prefetch"
    /\ LET j == wjob[w].job_id
           r == Seen(wrun[w], j)
       IN IF IsCancelled(j)
          THEN /\ wrun' = [wrun EXCEPT ![w] =
                              [r EXCEPT !.lastOp = "delete", !.outcome = "cancelled"]]
               /\ Goto(w, "finally")
          ELSE /\ wrun' = [wrun EXCEPT ![w] = [r EXCEPT !.lastOp = "downloading"]]
               /\ Goto(w, "fetching")
    /\ UNCHANGED <<handlerVars, progVars, editVars, planVars, callVars, fileVars, queueVars, wjob, wloc>>

\* one call of progress_hook by the library during extract_info
FetchSignal(w, signals) ==
    /\ wpc[w] = "fetching"
    /\ \E d \in signals :
        LET j == wjob[w].job_id
            r == [Seen(wrun[w], j) EXCEPT !.hardTotal = @ \/ Reveals(d)]
            k == ProgressHook(d, wloc[w].pct, IsCancelled(j), wjob[w].mode)
        IN /\ wloc' = [wloc EXCEPT ![w].pct = k.state]
           /\ IF k.raise # "none"
              THEN /\ wrun' = [wrun EXCEPT ![w] = Aborted(r, j)]
                   /\ Goto(w, "except")
              ELSE /\ wrun' = [wrun EXCEPT ![w] =
                          [r EXCEPT !.lastOp = IF k.edit = "none" THEN @ ELSE "downloading"]]
                   /\ UNCHANGED wpc
    /\ UNCHANGED <<handlerVars, progVars, editVars, planVars, callVars, fileVars, queueVars, wjob>>

\* what a fetch leaves under outtmpl, and what the artifact lookup then finds:
\* nothing, or a file of this size
Artifacts == {None, 1, MAX_SEND_BYTES, MAX_SEND_BYTES + 1}

\* the output folder after a fetch wrote f under the prefix (line 743: outtmpl)
Written(prefix, f) == IF IsInt(f) THEN Put(files, prefix, f) ELSE files

\* extract_info returns, having left a file of a size of `sizes`
FetchDone(w, sizes) ==
    /\ wpc[w] = "fetching"
    /\ \E f \in sizes : files' = Written(wloc[w].tmp, f)
    /\ Goto(w, "postfetch")
    /\ UNCHANGED <<handlerVars, progVars, editVars, planVars, callVars, queueVars, wjob, wloc, wrun>>

\* extract_info raises (a transfer error of the library), having left a file
\* of a size of `sizes`
FetchFail(w, sizes) ==
    /\ wpc[w] = "fetching"
    /\ \E f \in sizes : files' = Written(wloc[w].tmp, f)
    /\ wrun' = [wrun EXCEPT ![w] = Aborted(@, wjob[w].job_id)]
    /\ Goto(w, "except")
    /\ UNCHANGED <<handlerVars, progVars, editVars, planVars, callVars, queueVars, wjob, wloc>>

\* lines 827-829: the post-fetch check
PostFetchCheck(w) ==
    /\ wpc[w] = "postfetch"
    /\ LET j == wjob[w].job_id
           r == Seen(wrun[w], j)
       IN IF IsCancelled(j)
          THEN /\ wrun' = [wrun EXCEPT ![w] =
                              [r EXCEPT !.lastOp = "delete", !.outcome = "cancelled"]]
               /\ Goto(w, "finally")
          ELSE /\ wrun' = [wrun EXCEPT ![w] = r]
               /\ Goto(w, "verify")
    /\ UNCHANGED <<handlerVars, progVars, editVars, planVars, callVars, fileVars, queueVars, wjob, wloc>>

\* _find_downloaded_file / _find_file_by_prefix with os.path.getsize: the size
\* of the file under the prefix, None when there is none
FileSize(prefix) == IF prefix \in DOMAIN files THEN files[prefix] ELSE None

\* lines 831-844: is the artifact there and within the ceiling
VerifyOk(f) == IsInt(f) /\ ~(f > MAX_SEND_BYTES)

Verify(w) ==
    /\ wpc[w] = "verify"
    /\ IF VerifyOk(FileSize(wloc[w].tmp))
       THEN /\ Goto(w, "preupload")
            /\ UNCHANGED wrun
       ELSE /\ wrun' = [wrun EXCEPT ![w] = Aborted(@, wjob[w].job_id)]
            /\ Goto(w, "except")
    /\ UNCHANGED <<handlerVars, progVars, editVars, planVars, callVars, fileVars, queueVars, wjob, wloc>>

\* lines 564-588: the forced "Sending... 0%", the pre-upload check, then the
\* file is opened (open raises when it is gone) and handed to the request
PreUpload(w) ==
    /\ wpc[w] = "preupload"
    /\ LET j == wjob[w].job_id
           r == [Seen(wrun[w], j) EXCEPT !.lastOp = "sending"]
           f == FileSize(wloc[w].tmp)
       IN IF IsCancelled(j) \/ ~IsInt(f)
          THEN /\ wrun' = [wrun EXCEPT ![w] = Aborted(r, j)]
               /\ Goto(w, "except")
          ELSE /\ wrun' = [wrun EXCEPT ![w] = [r EXCEPT !.upSize = f]]
               /\ Goto(w, "uploading")
    /\ UNCHANGED <<handlerVars, progVars, editVars, planVars, callVars, fileVars, queueVars, wjob, wloc>>

\* lines 590-597: the monitor's callback for one chunk
UploadChunk(w) ==
    /\ wpc[w] = "uploading"
    /\ LET j == wjob[w].job_id
           r == Seen(wrun[w], j)
       IN IF IsCancelled(j)
          THEN /\ wrun' = [wrun EXCEPT ![w] = Aborted(r, j)]
               /\ Goto(w, "except")
               /\ UNCHANGED wloc
          ELSE /\ wrun' = [wrun EXCEPT ![w] = r]
               /\ wloc' = [wloc EXCEPT ![w].read = TRUE]
               /\ UNCHANGED wpc
    /\ UNCHANGED <<handlerVars, progVars, editVars, planVars, callVars, fileVars, queueVars, wjob>>

\* session.post raises
UploadFail(w) ==
    /\ wpc[w] = "uploading"
    /\ wrun' = [wrun EXCEPT ![w] = Aborted(@, wjob[w].job_id)]
    /\ Goto(w, "except")
    /\ UNCHANGED <<handlerVars, progVars, editVars, planVars, callVars, fileVars, queueVars, wjob, wloc>>

\* lines 615-622: the endpoint answered after the last chunk was read
UploadResponse(w) ==
    /\ wpc[w] = "uploading"
    /\ wloc[w].read
    /\ \/ /\ wrun' = [wrun EXCEPT ![w].ackd = TRUE]
          /\ Goto(w, "closing")
       \/ /\ wrun' = [wrun EXCEPT ![w] = Aborted(@, wjob[w].job_id)]
          /\ Goto(w, "except")
    /\ UNCHANGED <<handlerVars, progVars, editVars, planVars, callVars, fileVars, queueVars, wjob, wloc>>

\* line 624 and line 897: the forced "100%", then the status message is deleted
Closing(w) ==
    /\ wpc[w] = "closing"
    /\ wrun' = [wrun EXCEPT ![w].lastOp = "delete", ![w].outcome = "delivered"]
    /\ Goto(w, "finally")
    /\ UNCHANGED <<handlerVars, progVars, editVars, planVars, callVars, fileVars, queueVars, wjob, wloc>>

\* lines 899-903: how an exception closes the job
ExceptOutcome_AlwaysErrored(j) == "errored"
ExceptOutcome(j) == IF IsCancelled(j) THEN "cancelled" ELSE "errored"

ExceptHandler(w) ==
    /\ wpc[w] = "except"
    /\ LET o == ExceptOutcome(wjob[w].job_id)
       IN wrun' = [wrun EXCEPT ![w].lastOp = IF o = "cancelled" THEN "delete" ELSE "error",
                               ![w].outcome = o]
    /\ Goto(w, "finally")
    /\ UNCHANGED <<handlerVars, progVars, editVars, planVars, callVars, fileVars, queueVars, wjob, wloc>>

\* lines 905-923 and 932: local files removed, entries released, task_done,
\* back to the queue pop
\* lines 907-920: the artifact and every file whose name starts with tmp_id
Cleaned_KeepsFiles(folder, prefix) == folder
Cleaned(folder, prefix) == Pop(folder, prefix)

Finally(w) ==
    /\ wpc[w] = "finally"
    /\ files' = Cleaned(files, wloc[w].tmp)
    /\ cancel_events' = Pop(cancel_events, wjob[w].job_id)
    /\ active_jobs' = Pop(active_jobs, wjob[w].job_id)
    /\ wjob' = [wjob EXCEPT ![w] = NoJob]
    /\ wloc' = [wloc EXCEPT ![w] = NoWLoc]
    /\ wrun' = [wrun EXCEPT ![w] = NoRun]
    /\ Goto(w, "idle")
    /\ UNCHANGED <<handlerVars, progVars, editVars, planVars, callVars, jobs_q, nextJid>>

\* the handlers and the workers together
(***************************************************************************)
(* progress_hook over one fetch (lines 745-781)                            *)
(***************************************************************************)
\* the signals yt-dlp can hand the hook: fragment-indexed, byte-indexed,
\* estimate-based, without counters, finished, of another status, and of a file
\* that is not the job's
ProgressSignals ==
    { Signal("downloading", TRUE, 3, fi, 0, None, None) : fi \in {-1, 1, 2, 4} }
    \cup { Signal("downloading", TRUE, None, None, db, 200, None) : db \in {0, 100, 300} }
    \cup { Signal("downloading", TRUE, None, None, db, None, 400) : db \in {100, 500} }
    \cup { Signal("downloading", TRUE, None, None, 0, MAX_SEND_BYTES + 1, None),
           Signal("downloading", TRUE, None, None, None, None, None),
           Signal("downloading", FALSE, 3, 3, None, None, None),
           Signal("finished", TRUE, None, None, None, None, None),
           Signal("finished", FALSE, None, None, None, None, None),
           Signal("error", TRUE, None, None, None, None, None) }

\* line 745: a job starts its fetch with progress_state = {"pct": 0}
ProgressStart ==
    /\ pmode = "none"
    /\ \E m \in {"video", "doc", "audio"} : pmode' = m
    /\ progress_state' = 0
    /\ pfinished' = FALSE
    /\ reports' = <<>>
    /\ UNCHANGED <<handlerVars, queueVars, workerVars, editVars, planVars, callVars, fileVars>>

\* one call of progress_hook; cancelled is what _is_cancelled answers
ProgressSignal ==
    /\ pmode \notin {"none", "aborted"}
    /\ Len(reports) < MaxSignals
    /\ \E d \in ProgressSignals, cancelled \in BOOLEAN :
          LET r == ProgressHook(d, progress_state, cancelled, pmode)
          IN /\ progress_state' = r.state
             /\ pmode' = IF r.raise = "none" THEN pmode ELSE "aborted"
             /\ pfinished' = (pfinished \/ (~cancelled /\ d.own /\ d.status = "finished"))
             /\ reports' = IF r.edit # "none" /\ IsInt(r.pct)
                           THEN Append(reports, [pct |-> r.pct, finished |-> pfinished',
                                                 status |-> d.status])
                           ELSE reports
    /\ UNCHANGED <<handlerVars, queueVars, workerVars, editVars, planVars, callVars, fileVars>>

\* the fetch returns or raises: the hook is called no more
ProgressEnd ==
    /\ pmode # "none"
    /\ pmode' = "none"
    /\ UNCHANGED <<progress_state, pfinished, reports>>
    /\ UNCHANGED <<handlerVars, queueVars, workerVars, editVars, planVars, callVars, fileVars>>

(***************************************************************************)
(* _safe_edit (lines 77-100)                                               *)
(***************************************************************************)
\* "chat-message" keys, status texts, and the time between two calls
EditKeys == {1, 2}
EditTexts == {"a", "b"}
EditDeltas == {1, EDIT_INTERVAL_DSEC - 1, EDIT_INTERVAL_DSEC}

\* line 83: (now - last).total_seconds() < EDIT_INTERVAL_SEC
Throttled_Inclusive(last, t) == t - last <= EDIT_INTERVAL_DSEC
Throttled(last, t) == t - last < EDIT_INTERVAL_DSEC

\* lines 81-86: the early returns of a call that is not forced
Suppressed(key, text, force, t) ==
    /\ ~force
    /\ \/ key \in DOMAIN last_edited /\ Throttled(last_edited[key], t)
       \/ key \in DOMAIN last_text /\ last_text[key] = text

\* one call; d is the time since the previous call, ok whether the platform
\* takes the edit (bot.edit_message_text returns) or the call raises
SafeEdit(key, text, force, d, ok) ==
    /\ Len(calls) < MaxCalls
    /\ LET t == enow + d
           sent == ~Suppressed(key, text, force, t)
       IN /\ enow' = t
          /\ IF sent /\ ok
             THEN /\ last_edited' = Put(last_edited, key, t)
                  /\ last_text' = Put(last_text, key, text)
             ELSE UNCHANGED <<last_edited, last_text>>
          /\ calls' = Append(calls, [key |-> key, text |-> text, force |-> force, at |-> t,
                                     sent |-> sent, ok |-> sent /\ ok])
    /\ UNCHANGED <<handlerVars, queueVars, workerVars, progVars, fileVars, planVars, callVars>>

Next ==
    \/ Tick
    \/ ProgressStart
    \/ ProgressSignal
    \/ ProgressEnd
    \/ \E key \in EditKeys, text \in EditTexts, force \in BOOLEAN, d \in EditDeltas, ok \in BOOLEAN :
          SafeEdit(key, text, force, d, ok)
    \/ \E h \in Handlers : SubmitBegin(h)
    \/ \E h \in Handlers : SubmitFetch(h, {FitPlan, BigPlan, UnknownPlan}, {None}, {None, 600})
    \/ \E h \in Handlers : SubmitDecide(h)
    \/ \E h \in Handlers : ChoiceBegin(h, Modes)
    \/ \E h \in Handlers : ChoiceConsume(h)
    \/ \E h \in Handlers : CancelBegin(h)
    \/ \E h \in Handlers : CancelApply(h)
    \/ \E w \in Workers : WorkerGet(w)
    \/ \E w \in Workers : Prepare(w, TRUE)
    \/ \E w \in Workers : MakedirsFail(w)
    \/ \E w \in Workers : PreFetchCheck(w)
    \/ \E w \in Workers : FetchSignal(w, HookSignals)
    \/ \E w \in Workers : FetchDone(w, Artifacts)
    \/ \E w \in Workers : FetchFail(w, Artifacts)
    \/ \E w \in Workers : PostFetchCheck(w)
    \/ \E w \in Workers : Verify(w)
    \/ \E w \in Workers : PreUpload(w)
    \/ \E w \in Workers : UploadChunk(w)
    \/ \E w \in Workers : UploadFail(w)
    \/ \E w \in Workers : UploadResponse(w)
    \/ \E w \in Workers : Closing(w)
    \/ \E w \in Workers : ExceptHandler(w)
    \/ \E w \in Workers : Finally(w)

Spec == Init /\ [][Next]_vars

(***************************************************************************)
(* The Pending Choice Store under the clock: submissions, selections and   *)
(* cancel requests while no worker takes a job.  Every behaviour is a      *)
(* behaviour of Spec with more kinds of links.                             *)
(***************************************************************************)
NextStore ==
    \/ Tick
    \/ \E h \in Handlers : SubmitBegin(h)
    \/ \E h \in Handlers :
          SubmitFetch(h, {FitPlan, BigPlan, UnknownPlan, GuessPlan}, {None, 1}, {None, 600})
    \/ \E h \in Handlers : SubmitDecide(h)
    \/ \E h \in Handlers : ChoiceBegin(h, Modes)
    \/ \E h \in Handlers : ChoiceConsume(h)
    \/ \E h \in Handlers : CancelBegin(h)
    \/ \E h \in Handlers : CancelApply(h)

SpecStore == Init /\ [][NextStore]_vars

(***************************************************************************)
(* The jobs: selections, cancel requests and the workers, for links whose  *)
(* video fits and whose audio fits, with the clock standing still (no      *)
(* worker step reads it), the output folder in order, no two jobs starting *)
(* in one millisecond, and fetches that leave no file or one of the        *)
(* largest size allowed.  Every behaviour is a behaviour of Spec.          *)
(***************************************************************************)
NextJobs ==
    \/ \E h \in Handlers : SubmitBegin(h)
    \/ \E h \in Handlers : SubmitFetch(h, {FitPlan}, {None}, {600})
    \/ \E h \in Handlers : SubmitDecide(h)
    \/ \E h \in Handlers : ChoiceBegin(h, {"video", "audio"})
    \/ \E h \in Handlers : ChoiceConsume(h)
    \/ \E h \in Handlers : CancelBegin(h)
    \/ \E h \in Handlers : CancelApply(h)
    \/ \E w \in Workers : WorkerGet(w)
    \/ \E w \in Workers : Prepare(w, FALSE)
    \/ \E w \in Workers : PreFetchCheck(w)
    \/ \E w \in Workers : FetchSignal(w, QuietSignals)
    \/ \E w \in Workers : FetchDone(w, {None, MAX_SEND_BYTES})
    \/ \E w \in Workers : FetchFail(w, {None})
    \/ \E w \in Workers : PostFetchCheck(w)
    \/ \E w \in Workers : Verify(w)
    \/ \E w \in Workers : PreUpload(w)
    \/ \E w \in Workers : UploadChunk(w)
    \/ \E w \in Workers : UploadFail(w)
    \/ \E w \in Workers : UploadResponse(w)
    \/ \E w \in Workers : Closing(w)
    \/ \E w \in Workers : ExceptHandler(w)
    \/ \E w \in Workers : Finally(w)

SpecJobs == Init /\ [][NextJobs]_vars

(***************************************************************************)
(* The decision gate over the plans the Size Planner can hand it, probed   *)
(* or not: submissions alone.  Every behaviour is a behaviour of Spec      *)
(* with more kinds of links.                                               *)
(***************************************************************************)
NextGate ==
    \/ \E h \in Handlers : SubmitBegin(h)
    \/ \E h \in Handlers : SubmitFetch(h, PlannedVideo, ProbeResults, Durations)
    \/ \E h \in Handlers : SubmitDecide(h)

SpecGate == Init /\ [][NextGate]_vars

(***************************************************************************)
(* The workers and the output folder: jobs of one handler thread at a      *)
(* time, workers that may start in the same millisecond, an output folder  *)
(* that may fail to be made, fetches that leave a file or none.  Every     *)
(* behaviour is a behaviour of Spec.                                       *)
(***************************************************************************)
NextWork ==
    \/ \E h \in {1} : SubmitBegin(h)
    \/ \E h \in {1} : SubmitFetch(h, {FitPlan}, {None}, {600})
    \/ \E h \in {1} : SubmitDecide(h)
    \/ \E h \in {1} : ChoiceBegin(h, {"video", "audio"})
    \/ \E h \in {1} : ChoiceConsume(h)
    \/ \E h \in {1} : CancelBegin(h)
    \/ \E h \in {1} : CancelApply(h)
    \/ \E w \in Workers : WorkerGet(w)
    \/ \E w \in Workers : Prepare(w, TRUE)
    \/ \E w \in Workers : MakedirsFail(w)
    \/ \E w \in Workers : PreFetchCheck(w)
    \/ \E w \in Workers : FetchSignal(w, QuietSignals)
    \/ \E w \in Workers : FetchDone(w, Artifacts)
    \/ \E w \in Workers : FetchFail(w, {None, 1})
    \/ \E w \in Workers : PostFetchCheck(w)
    \/ \E w \in Workers : Verify(w)
    \/ \E w \in Workers : PreUpload(w)
    \/ \E w \in Workers : UploadChunk(w)
    \/ \E w \in Workers : UploadFail(w)
    \/ \E w \in Workers : UploadResponse(w)
    \/ \E w \in Workers : Closing(w)
    \/ \E w \in Workers : ExceptHandler(w)
    \/ \E w \in Workers : Finally(w)

SpecWork == Init /\ [][NextWork]_vars

(***************************************************************************)
(* The fetch and its progress signals: jobs of one handler thread, signals *)
(* that carry a total above the ceiling while a file is fetched or when it *)
(* is finished.  Every behaviour is a behaviour of Spec.                   *)
(***************************************************************************)
NextFetch ==
    \/ \E h \in {1} : SubmitBegin(h)
    \/ \E h \in {1} : SubmitFetch(h, {FitPlan}, {None}, {600})
    \/ \E h \in {1} : SubmitDecide(h)
    \/ \E h \in {1} : ChoiceBegin(h, {"video", "audio"})
    \/ \E h \in {1} : ChoiceConsume(h)
    \/ \E h \in {1} : CancelBegin(h)
    \/ \E h \in {1} : CancelApply(h)
    \/ \E w \in Workers : WorkerGet(w)
    \/ \E w \in Workers : Prepare(w, FALSE)
    \/ \E w \in Workers : PreFetchCheck(w)
    \/ \E w \in Workers : FetchSignal(w, HookSignals)
    \/ \E w \in Workers : FetchDone(w, {MAX_SEND_BYTES, MAX_SEND_BYTES + 1})
    \/ \E w \in Workers : FetchFail(w, {None})
    \/ \E w \in Workers : PostFetchCheck(w)
    \/ \E w \in Workers : Verify(w)
    \/ \E w \in Workers : PreUpload(w)
    \/ \E w \in Workers : UploadChunk(w)
    \/ \E w \in Workers : UploadFail(w)
    \/ \E w \in Workers : UploadResponse(w)
    \/ \E w \in Workers : Closing(w)
    \/ \E w \in Workers : ExceptHandler(w)
    \/ \E w \in Workers : Finally(w)

SpecFetch == Init /\ [][NextFetch]_vars

(***************************************************************************)
(* The Audio Fitter: calls of _build_audio_plan_mp3 over durations and     *)
(* ceilings.                                                               *)
(***************************************************************************)
NextFit ==
    \/ FitAudio(MetaDurations, Limits)

SpecFit == Init /\ [][NextFit]_vars

(***************************************************************************)
(* Rendition selection: one metadata, its formats in any order.            *)
(***************************************************************************)
NextPick ==
    \/ PickBest(FormatLists)

SpecPick == Init /\ [][NextPick]_vars

(***************************************************************************)
(* Probe escalation: one plan of the Size Planner, its URLs and what the   *)
(* probes answer.                                                          *)
(***************************************************************************)
NextProbe ==
    \/ ProbePlan(PlannedVideo, UrlKinds, ProbeResults)

SpecProbe == Init /\ [][NextProbe]_vars

(***************************************************************************)
(* Sizes from metadata: a video-only and an audio-only format, a duration. *)
(***************************************************************************)
NextSized ==
    \/ SizeFormats(SizedFormats, SizedDurations)

SpecSized == Init /\ [][NextSized]_vars

(***************************************************************************)
(* The calls to the platform of the pool threads and the workers.          *)
(***************************************************************************)
NextCalls ==
    \/ \E t \in Threads : BotCallEnter(t)
    \/ \E t \in Threads : BotCallExit(t)
    \/ \E t \in Threads : DirectCallEnter(t)
    \/ \E t \in Threads : DirectCallExit(t)

SpecCalls == Init /\ [][NextCalls]_vars

(***************************************************************************)
(* The workers under fair scheduling: every step of a worker that can be   *)
(* taken is taken in the end, and every extract_info and session.post      *)
(* returns or raises in the end.                                           *)
(***************************************************************************)
\* the steps a worker takes by itself
WorkerStep(w) ==
    \/ WorkerGet(w)
    \/ Prepare(w, FALSE)
    \/ MakedirsFail(w)
    \/ PreFetchCheck(w)
    \/ PostFetchCheck(w)
    \/ Verify(w)
    \/ PreUpload(w)
    \/ Closing(w)
    \/ ExceptHandler(w)
    \/ Finally(w)

\* the fetch or the upload returns or raises
CallReturns(w) ==
    \/ FetchDone(w, {MAX_SEND_BYTES})
    \/ FetchFail(w, {None})
    \/ UploadFail(w)
    \/ UploadResponse(w)

NextLive ==
    \/ \E h \in {1} : SubmitBegin(h)
    \/ \E h \in {1} : SubmitFetch(h, {FitPlan}, {None}, {600})
    \/ \E h \in {1} : SubmitDecide(h)
    \/ \E h \in {1} : ChoiceBegin(h, {"video"})
    \/ \E h \in {1} : ChoiceConsume(h)
    \/ \E h \in {1} : CancelBegin(h)
    \/ \E h \in {1} : CancelApply(h)
    \/ \E w \in Workers : WorkerStep(w)
    \/ \E w \in Workers : CallReturns(w)
    \/ \E w \in Workers : FetchSignal(w, QuietSignals)
    \/ \E w \in Workers : UploadChunk(w)

Fairness == \A w \in Workers : WF_vars(WorkerStep(w)) /\ WF_vars(CallReturns(w))

SpecLive == Init /\ [][NextLive]_vars /\ Fairness

(***************************************************************************)
(* The Progress Tracker: the fetches of one worker, one after the other.   *)
(***************************************************************************)
NextProgress ==
    \/ ProgressStart
    \/ ProgressSignal
    \/ ProgressEnd

SpecProgress == Init /\ [][NextProgress]_vars

(***************************************************************************)
(* The Status Reporter: calls of _safe_edit, forced or not, that the       *)
(* platform takes or refuses.                                              *)
(***************************************************************************)
NextEdit ==
    \E key \in EditKeys, text \in EditTexts, force \in BOOLEAN, d \in EditDeltas, ok \in BOOLEAN :
        SafeEdit(key, text, force, d, ok)

SpecEdit == Init /\ [][NextEdit]_vars

(***************************************************************************)
(* Claims                                                                  *)
(***************************************************************************)
QueuedJobs == {jobs_q[i] : i \in 1..Len(jobs_q)}

\* C1: every video or document job on the queue carries a plan that is confident
\* with an integer size > 0 and <= MAX_SEND_BYTES (checked under SpecStore, where
\* no worker removes a job, so every job ever enqueued is still on the queue).
C1_EnqueuedVideoPlansFit ==
    \A job \in QueuedJobs :
        job.mode \in {"video", "doc"} =>
            /\ job.plan.estimated_confident
            /\ IsInt(job.plan.estimated_size)
            /\ job.plan.estimated_size > 0
            /\ job.plan.estimated_size <= MAX_SEND_BYTES

\* a document job is on the queue, for a link whose size a probe confirmed
C1_Witness ==
    \E job \in QueuedJobs : job.mode = "doc" /\ job.plan.probe_urls = 1

\* the step in which handler h leaves the gate
GateStep(h) == hpc[h] = "gate" /\ hpc'[h] = "idle"
NewRids == (DOMAIN pending_requests') \ (DOMAIN pending_requests)

\* C2: when the video plan is not confident after probing, whatever its size, the
\* gate stores no video plan and the message carries neither the video nor the
\* document button.
C2_UnconfidentNeverOffered ==
    [][\A h \in Handlers :
         (GateStep(h) /\ ~hloc[h].video_plan.estimated_confident) =>
            /\ \A r \in DOMAIN pending_requests : pending_requests'[r] = pending_requests[r]
            /\ \A r \in NewRids :
                 /\ pending_requests'[r].video_plan = NoPlan
                 /\ choice_msg'[r].buttons \cap {"video", "doc"} = {}]_vars

\* a Pending Choice made from an unconfident plan whose size guess was under the
\* ceiling: it holds no video plan and its message offers audio alone
C2_Witness ==
    \E r \in DOMAIN pending_requests :
        /\ choice_msg[r].text = "unconfirmed"
        /\ pending_requests[r].video_plan = NoPlan
        /\ choice_msg[r].buttons = {"audio"}

\* C3: when the video plan is confident with size > MAX_SEND_BYTES, no video plan
\* is stored; with an Audio Plan one Pending Choice offering audio alone is
\* created, without one no Pending Choice is created.
C3_TooLargeOffersAudioAlone ==
    [][\A h \in Handlers :
         (/\ GateStep(h)
          /\ hloc[h].video_plan.estimated_confident
          /\ IsInt(hloc[h].video_plan.estimated_size)
          /\ hloc[h].video_plan.estimated_size > MAX_SEND_BYTES) =>
            IF hloc[h].audio_plan # NoPlan
            THEN /\ Cardinality(NewRids) = 1
                 /\ \A r \in NewRids :
                      /\ pending_requests'[r].video_plan = NoPlan
                      /\ pending_requests'[r].audio_plan = hloc[h].audio_plan
                      /\ choice_msg'[r].buttons = {"audio"}
            ELSE pending_requests' = pending_requests]_vars

\* a Pending Choice made for a video that is too large: audio alone
C3_Witness ==
    \E r \in DOMAIN pending_requests :
        /\ choice_msg[r].text = "too_large"
        /\ pending_requests[r].video_plan = NoPlan
        /\ pending_requests[r].audio_plan # NoPlan
        /\ choice_msg[r].buttons = {"audio"}

\* C9: a selection against a Pending Choice older than PENDING_TTL_SEC is not
\* accepted (it gets the "expired" answer), also when the entry is still in the store.
C9_StaleSelectionExpires ==
    [][\A h \in Handlers, r \in Rids :
         (/\ hpc[h] = "idle"
          /\ r \in DOMAIN pending_requests
          /\ now - pending_requests[r].created_at > PENDING_TTL_SEC) =>
            ~(hpc'[h] = "choice" /\ hloc'[h].rid = r)]_vars

\* C10: at most one job is created from one Pending Choice (a job's status message
\* is the message of the Pending Choice it was created from).
C10_OneJobPerChoice ==
    \A i, k \in 1..Len(jobs_q) :
        i # k => jobs_q[i].status_message_id # jobs_q[k].status_message_id

\* C5: once a checkpoint (pre-fetch, progress callback, post-fetch, pre-upload,
\* upload chunk callback) has run while the job's flag was set, the job is never
\* uploaded further nor delivered, and it ends cancelled with a delete as the
\* worker's last call on the status message.
C5_CheckpointCancels ==
    \A w \in Workers :
        wrun[w].cpSeen =>
            /\ wpc[w] \in {"except", "finally"}
            /\ ~wrun[w].ackd
            /\ wpc[w] = "finally" =>
                  (wrun[w].outcome = "cancelled" /\ wrun[w].lastOp = "delete")

\* a job cancelled while uploading: the chunk callback saw the flag after an
\* earlier chunk had gone out
C5_Witness ==
    \E w \in Workers :
        /\ wpc[w] = "finally"
        /\ wrun[w].cpSeen
        /\ wloc[w].read
        /\ wrun[w].outcome = "cancelled"

\* C6: a job whose upload was acknowledged ends delivered whatever is requested
\* afterwards; a cancel request is accepted only for a job that holds an
\* active-job entry, and an accepted request that finds the entries released
\* sets no flag and changes no registry entry.
C6_LateCancelNoEffect ==
    [][/\ \A w \in Workers :
            wrun'[w].ackd =>
                \/ wpc'[w] = "closing"
                \/ wpc'[w] = "finally" /\ wrun'[w].outcome = "delivered"
                                      /\ wrun'[w].lastOp = "delete"
       /\ \A h \in Handlers :
            (hpc[h] = "idle" /\ hpc'[h] = "cancel") =>
                hloc'[h].job_id \in DOMAIN active_jobs
       /\ \A h \in Handlers :
            (hpc[h] = "cancel" /\ hpc'[h] = "idle"
             /\ hloc[h].job_id \notin DOMAIN active_jobs) =>
                (cancel_events' = cancel_events /\ active_jobs' = active_jobs)]_vars

\* a delivered job whose flag was set after its last checkpoint
C6_Witness ==
    \E w \in Workers :
        /\ wpc[w] = "finally"
        /\ wrun[w].outcome = "delivered"
        /\ FlagSet(wjob[w].job_id)

\* C7: a job whose execution aborted with an exception while its flag was set is
\* closed as cancelled: the status message is deleted, no error line is written.
C7_CancelBeatsError ==
    \A w \in Workers :
        (wpc[w] = "finally" /\ wrun[w].abortFlag = "set") =>
            (wrun[w].outcome = "cancelled" /\ wrun[w].lastOp = "delete")

\* a failure that no checkpoint raised, with the flag set: closed as cancelled
C7_Witness ==
    \E w \in Workers :
        /\ wpc[w] = "finally"
        /\ wrun[w].abortFlag = "set"
        /\ ~wrun[w].cpSeen
        /\ wrun[w].outcome = "cancelled"

\* C4: the percentages one fetch's progress callback reports never decrease,
\* and 100 is reported only once a signal with status finished has been handled.
C4_ProgressMonotone ==
    /\ \A i, k \in 1..Len(reports) : i < k => reports[i].pct <= reports[k].pct
    /\ \A i \in 1..Len(reports) : reports[i].pct = 100 => reports[i].finished

\* a fragment count that regressed and a byte count that overran, reported
\* without a step back and below 100
C4_Witness ==
    /\ Len(reports) = 3
    /\ reports[1].pct = 66
    /\ reports[2].pct = 66
    /\ reports[3].pct = 99
    /\ ~reports[3].finished

\* the edits of a key the platform took before call i
AcceptedBefore(i) == {j \in 1..(i - 1) : calls[j].key = calls[i].key /\ calls[j].ok}
LastAccepted(i) == CHOOSE j \in AcceptedBefore(i) : \A m \in AcceptedBefore(i) : m <= j

\* C8: a call of _safe_edit that is not forced is sent exactly when no edit of
\* its key was taken less than EDIT_INTERVAL_SEC before it and its text differs
\* from the text of the last edit of its key that was taken; a forced call is
\* always sent; of two unforced calls with different texts, the second less than
\* the interval after the first was taken, the second is not sent.
C8_EditThrottle ==
    /\ \A i \in 1..Len(calls) :
          calls[i].sent <=>
              \/ calls[i].force
              \/ /\ \A j \in AcceptedBefore(i) :
                        calls[i].at - calls[j].at >= EDIT_INTERVAL_DSEC
                 /\ (AcceptedBefore(i) # {} => calls[LastAccepted(i)].text # calls[i].text)
    /\ \A i, k \in 1..Len(calls) :
          (/\ i < k /\ calls[i].key = calls[k].key
           /\ ~calls[i].force /\ ~calls[k].force
           /\ calls[i].text # calls[k].text
           /\ calls[i].ok
           /\ calls[k].at - calls[i].at < EDIT_INTERVAL_DSEC) => ~calls[k].sent

\* an unforced edit taken, a different text held back inside the interval, and
\* the first text again, forced, sent inside the interval
C8_Witness ==
    /\ Len(calls) = 3
    /\ \A i \in 1..3 : calls[i].key = 1
    /\ ~calls[1].force /\ calls[1].ok
    /\ ~calls[2].force /\ calls[2].text # calls[1].text /\ ~calls[2].sent
    /\ calls[3].force /\ calls[3].text = calls[1].text /\ calls[3].sent
    /\ calls[3].at - calls[1].at < EDIT_INTERVAL_DSEC

\* C11: a selection whose plan is absent from the Pending Choice (audio without
\* an audio plan; video, document or any other tag without a video plan)
\* enqueues no job and creates no cancellation or active-job entry; any other
\* selection enqueues one job whose plan is the plan stored for its mode; every
\* queued job has mode video, doc or audio and carries a plan.
C11_JobOnlyForStoredPlan ==
    [][/\ \A h \in Handlers :
            (hpc[h] = "choice" /\ hpc'[h] = "idle") =>
                LET req == hloc[h].req
                    tag == hloc[h].mode
                    absent == \/ tag = "audio" /\ req.audio_plan = NoPlan
                              \/ tag # "audio" /\ req.video_plan = NoPlan
                IN IF absent
                   THEN /\ jobs_q' = jobs_q
                        /\ cancel_events' = cancel_events
                        /\ active_jobs' = active_jobs
                   ELSE /\ Len(jobs_q') = Len(jobs_q) + 1
                        /\ SubSeq(jobs_q', 1, Len(jobs_q)) = jobs_q
                        /\ LET job == jobs_q'[Len(jobs_q')]
                           IN /\ job.mode = "audio" => job.plan = req.audio_plan
                              /\ job.mode \in {"video", "doc"} => job.plan = req.video_plan
                              /\ tag \in {"video", "doc", "audio"} => job.mode = tag
       /\ \A i \in 1..Len(jobs_q') :
            jobs_q'[i].mode \in {"video", "doc", "audio"} /\ jobs_q'[i].plan # NoPlan]_vars

\* an audio-only Pending Choice that a selection consumed without a job: its
\* entry is gone though no sweep could have dropped it, and no job names it
C11_Witness ==
    \E rid \in DOMAIN choice_msg :
        /\ choice_msg[rid].buttons = {"audio"}
        /\ rid \notin DOMAIN pending_requests
        /\ now = 0
        /\ \A h \in Handlers : hpc[h] = "idle"
        /\ \A i \in 1..Len(jobs_q) : jobs_q[i].status_message_id # rid

\* C12: no failure during a job ends a worker: the WORKERS worker threads all
\* stay alive.
C12_WorkersStayAlive ==
    Cardinality({w \in Workers : wpc[w] # "dead"}) = WORKERS

\* the jobs that are not finished: on the queue, or with a worker
Unfinished ==
    {jobs_q[i].job_id : i \in 1..Len(jobs_q)}
    \cup {wjob[w].job_id : w \in {x \in Workers : wpc[x] # "idle"}}
\* the prefixes of the jobs a worker is running
LivePrefixes == {wloc[w].tmp : w \in {x \in Workers : wpc[x] \notin {"idle", "start", "dead"}}}

C18_PrefixesDiffer ==
    \A w1, w2 \in Workers :
        (w1 # w2 /\ wloc[w1].tmp # 0 /\ wloc[w2].tmp # 0) => wloc[w1].tmp # wloc[w2].tmp

\* C19: no upload is started with a file larger than MAX_SEND_BYTES.
C19_NoOversizeUpload ==
    \A w \in Workers : IsInt(wrun[w].upSize) => wrun[w].upSize <= MAX_SEND_BYTES

\* C14: jobs are handed to the workers in arrival order (job ids are given out in
\* the order of the puts): the queue holds its jobs oldest first, and a worker
\* that takes a job takes one that arrived before every job left on the queue.
C14_DequeuedInArrivalOrder ==
    [][/\ \A i, k \in 1..Len(jobs_q') : i < k => jobs_q'[i].job_id < jobs_q'[k].job_id
       /\ \A w \in Workers :
            (wpc[w] = "idle" /\ wpc'[w] # "idle") =>
                /\ wjob'[w] \in QueuedJobs
                /\ \A i \in 1..Len(jobs_q') : wjob'[w].job_id < jobs_q'[i].job_id]_vars

\* a worker has just taken the older of two jobs; the younger is still queued
C14_Witness ==
    \E w \in Workers :
        /\ wpc[w] = "start"
        /\ Len(jobs_q) = 1
        /\ wjob[w].job_id < jobs_q[1].job_id
        /\ \A v \in Workers \ {w} : wpc[v] = "idle"

\* C15: a job is run by one worker only and stays with it until it is finished;
\* a worker takes a job only when it has none, and gives it up only in a
\* terminal state.
C15_OneWorkerPerJob ==
    [][/\ \A w1, w2 \in Workers :
            (w1 # w2 /\ wjob'[w1] # NoJob /\ wjob'[w2] # NoJob) =>
                wjob'[w1].job_id # wjob'[w2].job_id
       /\ \A w \in Workers, i \in 1..Len(jobs_q') :
            wjob'[w] # NoJob => jobs_q'[i].job_id # wjob'[w].job_id
       /\ \A w \in Workers :
            /\ (wjob[w] = NoJob /\ wjob'[w] # NoJob) => wpc[w] = "idle"
            /\ wjob[w] # NoJob =>
                  \/ wjob'[w] = wjob[w]
                  \/ /\ wjob'[w] = NoJob
                     /\ wpc[w] = "finally"
                     /\ wrun[w].outcome \in {"delivered", "errored", "cancelled"}
            /\ (wpc[w] # "idle") = (wjob[w] # NoJob)]_vars

\* both workers busy, each with a job of its own, one of them already terminal
C15_Witness ==
    /\ \A w \in Workers : wjob[w] # NoJob
    /\ \E w \in Workers : wpc[w] = "finally" /\ wrun[w].outcome = "delivered"

\* C20: when the video plan is confident with 0 < size <= MAX_SEND_BYTES, a size
\* equal to the ceiling included, the gate creates one Pending Choice that
\* stores the video plan and the audio plan, and its message offers video and
\* document, and audio exactly when there is an Audio Plan.
C20_FittingVideoOffersAll ==
    [][\A h \in Handlers :
         (/\ GateStep(h)
          /\ hloc[h].video_plan.estimated_confident
          /\ IsInt(hloc[h].video_plan.estimated_size)
          /\ hloc[h].video_plan.estimated_size > 0
          /\ hloc[h].video_plan.estimated_size <= MAX_SEND_BYTES) =>
            /\ Cardinality(NewRids) = 1
            /\ \A r \in DOMAIN pending_requests : pending_requests'[r] = pending_requests[r]
            /\ \A r \in NewRids :
                 /\ pending_requests'[r].video_plan = hloc[h].video_plan
                 /\ pending_requests'[r].audio_plan = hloc[h].audio_plan
                 /\ {"video", "doc"} \subseteq choice_msg'[r].buttons
                 /\ ("audio" \in choice_msg'[r].buttons) = (hloc[h].audio_plan # NoPlan)]_vars

\* a Pending Choice for a video exactly as large as the ceiling and a duration no
\* bitrate fits: the video plan is stored, video and document are offered, audio is not
C20_Witness ==
    \E r \in DOMAIN pending_requests :
        /\ pending_requests[r].video_plan # NoPlan
        /\ pending_requests[r].video_plan.estimated_size = MAX_SEND_BYTES
        /\ pending_requests[r].audio_plan = NoPlan
        /\ choice_msg[r].buttons = {"video", "doc"}

\* C16: for a known duration of d > 0 whole seconds and a ceiling L, the Audio
\* Fitter returns the plan of the highest bitrate br of the ladder
\* 192,160,128,112,96,80,64,48,32 with floor(d*br*1000/8) + 1,500,000 <= L, with
\* that estimated size, confident, and no reason; when no rung fits, or the
\* duration is absent or not positive, it returns no plan and a reason.  For
\* d = 600 and L = 50,000,000 the bitrate is 192.
C16_AudioFitterPicksHighestFitting ==
    fit # NoFit =>
        LET d == fit.dur
            L == fit.limit
            Size(br) == d * br * 125    \* floor(d*br*1000/8), d whole
            Fitting == {br \in {192, 160, 128, 112, 96, 80, 64, 48, 32} :
                            Size(br) + 1500000 <= L}
        IN /\ (IsInt(d) /\ d > 0 /\ Fitting # {}) =>
                /\ fit.plan # NoPlan
                /\ fit.plan.mp3_kbps \in Fitting
                /\ \A br \in Fitting : br <= fit.plan.mp3_kbps
                /\ fit.plan.estimated_size = Size(fit.plan.mp3_kbps)
                /\ fit.plan.estimated_confident
                /\ fit.reason = "none"
           /\ (~IsInt(d) \/ d <= 0 \/ Fitting = {}) =>
                /\ fit.plan = NoPlan
                /\ fit.reason # "none"
           /\ (d = 600 /\ L = 50000000) =>
                /\ fit.plan # NoPlan
                /\ fit.plan.mp3_kbps = 192

\* a duration that fits at 32 kbps to the byte and at no higher rung
C16_Witness ==
    /\ fit # NoFit
    /\ fit.dur = 12125
    /\ fit.limit = MAX_SEND_BYTES
    /\ fit.plan # NoPlan
    /\ fit.plan.mp3_kbps = 32
    /\ fit.plan.estimated_size + AUDIO_HEADROOM_BYTES = MAX_SEND_BYTES

\* C17: among the single-file candidates, and among the video-only candidates of
\* a paired selection, the selected one has the lexicographically greatest
\* (height, fps, bitrate), and of several candidates with that greatest tuple it
\* is the first of the list.
C17_SelectsGreatestFirst ==
    pick # NoPick =>
        LET fs == pick.formats
            Tuple(i) == <<OrZero(fs[i].height), OrZero(fs[i].fps), OrZero(fs[i].tbr)>>
            Less(a, b) == \/ a[1] < b[1]
                          \/ a[1] = b[1] /\ a[2] < b[2]
                          \/ a[1] = b[1] /\ a[2] = b[2] /\ a[3] < b[3]
            GreatestFirst(S, s) ==
                /\ s \in S
                /\ \A j \in S : ~Less(Tuple(s), Tuple(j))
                /\ \A j \in S : j < s => Tuple(j) # Tuple(s)
            Single == {i \in 1..Len(fs) : IsProgressive(fs[i])}
            VideoOnly == {i \in 1..Len(fs) : IsVideoOnly(fs[i])}
        IN /\ Single # {} => GreatestFirst(Single, pick.progressive)
           /\ pick.separate # NoPair => GreatestFirst(VideoOnly, pick.separate.v)

\* C21: a percentage reported for a signal with status downloading lies in
\* 0..99, whatever signals the fetch handled before; 100 is reported for a
\* signal with status finished only.
C21_DownloadingBelow100 ==
    \A i \in 1..Len(reports) :
        /\ reports[i].status = "downloading" => (0 <= reports[i].pct /\ reports[i].pct <= 99)
        /\ reports[i].pct = 100 => reports[i].status = "finished"

\* C22: probing is all or nothing over the direct URLs of the plan (the URLs
\* that start with http): a plan that was not confident becomes confident
\* exactly when it has a direct URL and every direct URL gave a positive total,
\* and its size is then the sum of these totals; otherwise its size and its
\* confidence are as before.  A plan that is confident already is not altered.
C22_ProbeAllOrNothing ==
    probe # NoProbe =>
        LET p == probe.plan
            r == probe.result
            Direct == {i \in 1..Len(probe.urls) : probe.urls[i] = "http"}
            Usable(i) == IsInt(probe.answers[i]) /\ probe.answers[i] > 0
            Total == (IF 1 \in Direct THEN probe.answers[1] ELSE 0)
                     + (IF 2 \in Direct THEN probe.answers[2] ELSE 0)
        IN /\ r.kind = p.kind
           /\ p.estimated_confident =>
                /\ r.estimated_confident
                /\ r.estimated_size = p.estimated_size
           /\ ~p.estimated_confident =>
                /\ r.estimated_confident = (Direct # {} /\ \A i \in Direct : Usable(i))
                /\ r.estimated_confident => r.estimated_size = Total
                /\ ~r.estimated_confident => r.estimated_size = p.estimated_size

\* a paired plan with a size guessed from the bitrate, both URLs probed: the size
\* is the sum of the two totals, here one byte above the ceiling
C22_Witness ==
    /\ probe # NoProbe
    /\ probe.plan.kind = "separate"
    /\ ~probe.plan.estimated_confident
    /\ probe.plan.estimated_size = 1
    /\ probe.urls = <<"http", "http">>
    /\ probe.answers = <<1, MAX_SEND_BYTES>>
    /\ probe.result.estimated_confident
    /\ probe.result.estimated_size = MAX_SEND_BYTES + 1

\* C23: a format's size is confident exactly when the format declares a size
\* (exact, else approximate), and is then that size, so a size derived from
\* bitrate and duration is never confident; the paired plan is confident only
\* if both streams declare a size, and its size is then their sum; if either
\* stream has no size the paired plan has no size and is not confident.
C23_OnlyDeclaredSizesConfident ==
    sized # NoSized =>
        LET Declared(f) == (IsInt(f.filesize) /\ f.filesize > 0)
                           \/ (IsInt(f.filesize_approx) /\ f.filesize_approx > 0)
            DeclaredSize(f) == IF IsInt(f.filesize) /\ f.filesize > 0
                               THEN f.filesize ELSE f.filesize_approx
        IN /\ sized.v.conf = Declared(sized.vf)
           /\ sized.a.conf = Declared(sized.af)
           /\ sized.v.conf => sized.v.size = DeclaredSize(sized.vf)
           /\ sized.a.conf => sized.a.size = DeclaredSize(sized.af)
           /\ sized.pair.conf => (Declared(sized.vf) /\ Declared(sized.af))
           /\ sized.pair.conf =>
                sized.pair.size = DeclaredSize(sized.vf) + DeclaredSize(sized.af)
           /\ (~IsInt(sized.v.size) \/ ~IsInt(sized.a.size)) =>
                (~IsInt(sized.pair.size) /\ ~sized.pair.conf)

\* a video stream with a declared size paired with an audio stream whose size is
\* derived from its bitrate: the pair is not confident
C23_Witness ==
    /\ sized # NoSized
    /\ sized.vf.filesize = 10
    /\ ~IsInt(sized.af.filesize) /\ ~IsInt(sized.af.filesize_approx)
    /\ sized.af.tbr = 8000 /\ sized.dur = 600
    /\ sized.a.size = 600000 /\ ~sized.a.conf
    /\ sized.pair.size = 600010 /\ ~sized.pair.conf

\* C24: once a progress signal of a video or document job has carried a
\* total_bytes above MAX_SEND_BYTES the fetch is over: the job is in its
\* exception handler or its cleanup, never verifying or delivering, and it ends
\* errored, or cancelled with the flag set; the same signal leaves the fetch of
\* an audio job running.
C24_HardTotalAborts ==
    [][\A w \in Workers :
         /\ (wrun'[w].hardTotal /\ wjob'[w].mode # "audio") =>
               /\ wpc'[w] \in {"except", "finally"}
               /\ wpc'[w] = "finally" => wrun'[w].outcome \in {"errored", "cancelled"}
               /\ wrun'[w].outcome = "cancelled" =>
                     /\ wjob'[w].job_id \in DOMAIN cancel_events'
                     /\ cancel_events'[wjob'[w].job_id]
         /\ (/\ wpc[w] = "fetching"
             /\ wjob[w].mode = "audio"
             /\ ~IsCancelled(wjob[w].job_id)
             /\ ~wrun[w].hardTotal
             /\ wrun'[w].hardTotal) => wpc'[w] = "fetching"]_vars

\* C25: the tables are under mutual exclusion.  For the Pending Choice Store: no
\* two threads are at once between the lookup of a Pending Choice and the pop
\* that depends on it, and while a thread stands between the two the entry it
\* looked up is still in the store.
C25_TablesUnderMutualExclusion ==
    /\ Cardinality({h \in Handlers : hpc[h] = "choice"}) <= 1
    /\ \A h \in Handlers : hpc[h] = "choice" => hloc[h].rid \in DOMAIN pending_requests

\* C26: the calls to the platform are serialized: at any moment at most one
\* call is in flight, over all workers and handler threads.
C26_OneCallInFlight ==
    \A t, u \in Threads :
        /\ Cardinality(inflight[t]) <= 1
        /\ t # u => (inflight[t] = {} \/ inflight[u] = {})

\* what the chat shows of the status message of the job worker w holds: the
\* line of the worker's last edit, or nothing once on_cancel (1195) or the
\* worker deleted it
StatusLine(w) == IF FlagSet(wjob[w].job_id) THEN "delete" ELSE wrun[w].lastOp

\* the worker is through with its job: it stands before the finally clause
\* of _download_and_send, or its thread ended with the job (task_done called)
Through(w) == wpc[w] \in {"finally", "dead"}

\* C27: each terminal outcome has one closing effect on the status message:
\* delivered deletes it after the endpoint acknowledged, errored rewrites it
\* with the failure reason, cancelled deletes it; and once the worker is
\* through with a job its status message shows no queued, downloading or
\* sending line.
C27_OneClosingEffect ==
    \A w \in Workers :
        /\ wpc[w] = "finally" =>
              \/ wrun[w].outcome = "delivered" /\ wrun[w].lastOp = "delete" /\ wrun[w].ackd
              \/ wrun[w].outcome = "errored" /\ wrun[w].lastOp = "error"
              \/ wrun[w].outcome = "cancelled" /\ wrun[w].lastOp = "delete"
        /\ Through(w) => StatusLine(w) \notin {"queued", "downloading", "sending"}

\* the ids of the jobs on the queue, and of the jobs a running worker holds
QueuedIds == {jobs_q[i].job_id : i \in 1..Len(jobs_q)}
ExecutingIds == {wjob[w].job_id : w \in {x \in Workers : wpc[x] \notin {"idle", "dead"}}}

\* C28: in every state the job ids with a cancellation flag are the job ids
\* with an active-job entry, and both are the ids of the jobs that are queued
\* or being executed.
C28_EntriesAreLiveJobs ==
    /\ DOMAIN cancel_events = DOMAIN active_jobs
    /\ DOMAIN active_jobs = QueuedIds \cup ExecutingIds

\* job j stands at the end of _download_and_send with a terminal outcome
Terminated(j) ==
    \E w \in Workers :
        /\ wpc[w] = "finally"
        /\ wjob[w].job_id = j
        /\ wrun[w].outcome \in {"delivered", "errored", "cancelled"}

\* C29: with fair workers and calls that return or raise, every job put on
\* the queue is dequeued and reaches a terminal state (delivered, errored or
\* cancelled).
C29_QueuedJobTerminates ==
    \A j \in Jids : (j \in QueuedIds) ~> Terminated(j)

\* on_cancel goes on to lines 1188-1197 for the request handler h took
Accepted(h) == hpc[h] = "cancel"

\* C30: a cancel request sets a flag and deletes a status message only when
\* the requesting user is the owner of the job; no flag is set, no registry
\* entry changes and no status message is deleted by on_cancel otherwise.
C30_OnlyOwnerCancels ==
    [][/\ \A h \in Handlers :
            hpc'[h] = "cancel" =>
                hloc'[h].from_user = hloc'[h].job_info.user_id
       /\ \A j \in Jids :
            (j \in DOMAIN cancel_events' /\ cancel_events'[j] /\ ~FlagSet(j)) =>
                \E h \in Handlers :
                    /\ Accepted(h)
                    /\ hloc[h].job_id = j
                    /\ hloc[h].from_user = active_jobs[j].user_id
       /\ (\A h \in Handlers : ~Accepted(h)) =>
                \A j \in DOMAIN cancel_events :
                    j \in DOMAIN cancel_events' => cancel_events'[j] = cancel_events[j]]_vars

\* the request of user 1 set the flag of a job of user 1, which user 2 also
\* could ask to cancel
C30_Witness ==
    \E j \in DOMAIN active_jobs :
        /\ active_jobs[j].user_id \in Users
        /\ j \in DOMAIN cancel_events
        /\ cancel_events[j]
        /\ \A h \in Handlers : ~Accepted(h)

\* on_download_choice goes on to line 1225 for the selection handler h took
Selecting(h) == hpc[h] = "choice"
\* handler h runs _cleanup_pending in this step (the sweep of a new link)
Sweeping(h) == hpc[h] = "idle" /\ hpc'[h] = "submit"

\* C31: a selection by a user other than the owner of the Pending Choice
\* enqueues no job and leaves the store unchanged: only the owner's selection
\* goes on to the pop, an entry leaves the store only by the owner's selection
\* or by a sweep, and a job is enqueued only by the owner's selection.
C31_OnlyOwnerSelects ==
    [][/\ \A h \in Handlers :
            hpc'[h] = "choice" => hloc'[h].from_user = hloc'[h].req.user_id
       /\ \A rid \in DOMAIN pending_requests :
            rid \notin DOMAIN pending_requests' =>
                \/ \E h \in Handlers : Sweeping(h)
                \/ \E h \in Handlers :
                      /\ Selecting(h)
                      /\ hloc[h].rid = rid
                      /\ hloc[h].from_user = pending_requests[rid].user_id
       /\ jobs_q' # jobs_q /\ Len(jobs_q') > Len(jobs_q) =>
                \E h \in Handlers :
                    /\ Selecting(h)
                    /\ hloc[h].from_user = hloc[h].req.user_id
                    /\ jobs_q'[Len(jobs_q')].status_message_id = hloc[h].rid]_vars

\* the owner consumed a Pending Choice that user 2 could select as well: its
\* job is on the queue, its entry is gone, and another entry is still stored
C31_Witness ==
    /\ \A h \in Handlers : hpc[h] = "idle"
    /\ \E i \in 1..Len(jobs_q) :
          /\ jobs_q[i].status_message_id \notin DOMAIN pending_requests
          /\ active_jobs[jobs_q[i].job_id].user_id = 1
    /\ pending_requests # <<>>

\* the plan the mode tag of a selection asks for is absent from its request
PlanAbsent(req, tag) == ChosenPlan(req, tag) = NoPlan

\* C33: a selection by the owner that is rejected because the plan of the
\* chosen mode is absent leaves the Pending Choice in the store.
C33_RejectedSelectionKeepsChoice ==
    [][\A h \in Handlers :
          (Selecting(h) /\ hpc'[h] = "idle" /\ PlanAbsent(hloc[h].req, hloc[h].mode)
           /\ hloc[h].rid \in DOMAIN pending_requests) =>
              /\ hloc[h].rid \in DOMAIN pending_requests'
              /\ pending_requests'[hloc[h].rid] = pending_requests[hloc[h].rid]]_vars

\* job j waits on the queue with its cancellation flag set
CancelledInQueue(j) == j \in QueuedIds /\ FlagSet(j)
\* the entries of job j are released (lines 922-923)
Released(j) == j \notin DOMAIN cancel_events /\ j \notin DOMAIN active_jobs

\* C32: a job whose flag is set while it waits on the queue never enters
\* fetching: the worker that stands at the pre-fetch check with the flag set
\* deletes the status message and goes to the finally clause with nothing
\* written, and the job's entries are released in the end.
C32_QueuedCancelSkipsFetch ==
    /\ [][\A w \in Workers :
            (wpc[w] = "prefetch" /\ FlagSet(wjob[w].job_id) /\ wpc'[w] # "prefetch") =>
                /\ wpc'[w] = "finally"
                /\ wrun'[w].lastOp = "delete"
                /\ wrun'[w].outcome = "cancelled"
                /\ files' = files]_vars
    /\ \A j \in Jids : CancelledInQueue(j) ~> Released(j)

====
